---- MODULE Spec2Model ----
(***************************************************************************)
(* Model of the support chatbot backend: the warranty knowledge cache of   *)
(* backend/scraper.js, the generative-responder call of backend/server.js  *)
(* and the answer extraction of getAnswerFromData.                         *)
(*                                                                         *)
(* Time is counted in ticks of the wall clock (Date.now()); one tick       *)
(* stands for half of the cache duration.                                  *)
(***************************************************************************)
EXTENDS Integers, Sequences, FiniteSets, TLC

VARIABLES
    warrantyCache,  \* scraper.js module variable {data, timestamp}
    clock,          \* the value Date.now() returns
    fileState,      \* backend/data/warranty.txt: absent, unreadable or its content
    pc,             \* per caller: position inside getWarrantyWithCache
    now,            \* per caller: the local `now` taken at entry
    result,         \* per caller: the text returned to the caller
    via,            \* per caller: how the returned text was obtained
    live,           \* per caller: outcome of its live fetch (none, fail or the text)
    cacheSrc,       \* provenance of the cache entry
    lastStore,      \* text and `now` of the call that stored last
    overlap,        \* per caller: another live fetch was in flight during its own
    cacheLog,       \* what happened to the cache last: the callers whose fetch was in
                    \* flight at the last clear, which call stored the entry and at
                    \* what time it had its text, and the last of clear, store and
                    \* failure
    chatPc,         \* position of the /api/chat request being handled
    useOpenAI,      \* USE_OPENAI: an OpenAI key is configured
    chatMsg,        \* class of the message of the request
    hfCalls,        \* calls made to the Hugging Face endpoint for this message
    chatReply,      \* what the request was answered with
    chatKb,         \* warrantyKB held by the handler: none, text or null
    query,          \* userMessage handed to the extraction
    kbRecords,      \* product keys the fetcher recognized in the page, in page order
    kbFaqs,         \* question/answer pairs the fetcher harvested
    kbSource,       \* where the knowledge text came from: live or file
    doc,            \* dataContent.split('\n'): the lines of the knowledge text
    stage,          \* position inside getAnswerFromData(query, text)
    matchedProduct, \* local matchedProduct (Null: null)
    scanned,        \* locals of the product block after its loop over the lines
    qaPairs,        \* local qaPairs
    bestSection,    \* local bestSection after the loop of the section fallback
    bestMatchCount, \* local bestMatchCount after that loop
    answer,         \* what getAnswerFromData returned (Null: nothing yet)
    files,          \* backend/data: per file name, its lines (NoText: no such file)
    liveOk,         \* the live fetch of the warranty page succeeds
    openaiMode,     \* USE_OPENAI at the time of the composed request
    composePc,      \* position of the composed request
    userMessage,    \* message of the composed request
    warrantyKB,     \* warrantyKB held by the handler, as lines (NoText: null)
    kbGets,         \* calls of getWarrantyKnowledgeBase() made for the request
    fileReads,      \* file names getDataFromFile has read for the request, in order
    topic,          \* branch of the composer whose extraction is running
    reply,          \* aiResponse (Null: none yet)
    diag            \* response of GET /api/warranty-data: source and data

cacheVars == <<warrantyCache, clock, fileState, pc, now, result, via, live,
               cacheSrc, lastStore, overlap, cacheLog>>

chatVars == <<chatPc, useOpenAI, chatMsg, hfCalls, chatReply, chatKb>>

extractVars == <<query, kbRecords, kbFaqs, kbSource, doc, stage, matchedProduct,
                 scanned, qaPairs, bestSection, bestMatchCount, answer>>

composeVars == <<files, liveOk, openaiMode, composePc, userMessage, warrantyKB, kbGets,
                 fileReads, topic, reply, diag>>

vars == <<cacheVars, chatVars, extractVars, composeVars>>

-----------------------------------------------------------------------------
(* Knowledge Source Cache: backend/scraper.js                              *)

Null == "<null>"
NullTime == 0
FileAbsent == "<absent>"
FileUnreadable == "<unreadable>"

CACHE_DURATION == 2
MaxClock == 4

Procs == {"p1", "p2"}
LiveTexts == {"L1", "L2"}
FileContents == {"", "F1"}
FileStates == {FileAbsent, FileUnreadable} \cup FileContents

\* JavaScript truthiness of a string-or-null and of a number-or-null
TruthyText(d) == d # Null /\ d # ""
TruthyTime(t) == t # NullTime

EmptyCache == [data |-> Null, timestamp |-> NullTime]

CacheValidInverted(cache, n) ==
    /\ TruthyText(cache.data)
    /\ TruthyTime(cache.timestamp)
    /\ (n - cache.timestamp) > CACHE_DURATION

\* if (warrantyCache.data && warrantyCache.timestamp && (now - timestamp) < CACHE_DURATION)
CacheValid(cache, n) ==
    /\ TruthyText(cache.data)
    /\ TruthyTime(cache.timestamp)
    /\ (n - cache.timestamp) < CACHE_DURATION

CacheStoreAtCompletion(text, n) == [data |-> text, timestamp |-> clock]

\* warrantyCache.data = text; warrantyCache.timestamp = now;
CacheStore(text, n) == [data |-> text, timestamp |-> n]

FallbackReadTruthy(fs) ==
    IF fs \in {FileAbsent, FileUnreadable, ""} THEN Null ELSE fs

\* the catch block: existsSync, readFileSync; Null stands for `throw error`
FallbackRead(fs) ==
    IF fs = FileAbsent THEN Null
    ELSE IF fs = FileUnreadable THEN Null
    ELSE fs

ChatIdle ==
    /\ chatPc = "idle"
    /\ useOpenAI = FALSE
    /\ chatMsg = "none"
    /\ hfCalls = 0
    /\ chatReply = "none"
    /\ chatKb = "none"

\* the locals of the product block of getAnswerFromData as declared
NothingFound ==
    [inProductSection |-> FALSE, productSection |-> "", warrantyPeriod |-> Null,
     warrantyService |-> Null, repairServices |-> <<>>, stop |-> FALSE]

ExtractIdle ==
    /\ query = ""
    /\ kbRecords = <<>>
    /\ kbFaqs = <<>>
    /\ kbSource = "none"
    /\ doc = <<>>
    /\ stage = "none"
    /\ matchedProduct = Null
    /\ scanned = NothingFound
    /\ qaPairs = <<>>
    /\ bestSection = ""
    /\ bestMatchCount = 0
    /\ answer = Null

\* a text is held as its lines, text.split('\n'), which are never none; the
\* empty sequence stands for a file that does not exist and for null
NoText == <<>>

FileNames == {"returns.txt", "shipping.txt", "payments.txt", "orders.txt", "warranty.txt"}

ComposeIdle ==
    /\ files = [f \in FileNames |-> NoText]
    /\ liveOk = FALSE
    /\ openaiMode = FALSE
    /\ composePc = "none"
    /\ userMessage = ""
    /\ warrantyKB = NoText
    /\ kbGets = 0
    /\ fileReads = <<>>
    /\ topic = "none"
    /\ reply = Null
    /\ diag = [source |-> "none", data |-> ""]

CacheIdle ==
    /\ warrantyCache = EmptyCache
    /\ clock = 1
    /\ fileState = FileAbsent
    /\ pc = [p \in Procs |-> "idle"]
    /\ now = [p \in Procs |-> 0]
    /\ result = [p \in Procs |-> Null]
    /\ via = [p \in Procs |-> "none"]
    /\ live = [p \in Procs |-> "none"]
    /\ cacheSrc = "none"
    /\ lastStore = EmptyCache
    /\ overlap = [p \in Procs |-> FALSE]
    /\ cacheLog = [pending |-> {}, entry |-> "none", obtained |-> NullTime, last |-> "none"]

CacheInit ==
    /\ warrantyCache = EmptyCache
    /\ clock = 1
    /\ fileState \in FileStates
    /\ pc = [p \in Procs |-> "idle"]
    /\ now = [p \in Procs |-> 0]
    /\ result = [p \in Procs |-> Null]
    /\ via = [p \in Procs |-> "none"]
    /\ live = [p \in Procs |-> "none"]
    /\ cacheSrc = "none"
    /\ lastStore = EmptyCache
    /\ overlap = [p \in Procs |-> FALSE]
    /\ cacheLog = [pending |-> {}, entry |-> "none", obtained |-> NullTime, last |-> "none"]

\* entry of getWarrantyWithCache up to the first await
GetStart(p) ==
    /\ pc[p] = "idle"
    /\ IF CacheValid(warrantyCache, clock)
       THEN /\ pc' = [pc EXCEPT ![p] = "done"]
            /\ result' = [result EXCEPT ![p] = warrantyCache.data]
            /\ via' = [via EXCEPT ![p] = "cache"]
            /\ UNCHANGED <<now, overlap>>
       ELSE /\ pc' = [pc EXCEPT ![p] = "fetching"]
            /\ now' = [now EXCEPT ![p] = clock]
            /\ overlap' = [q \in Procs |->
                    IF q = p THEN \E r \in Procs \ {p} : pc[r] = "fetching"
                    ELSE overlap[q] \/ pc[q] = "fetching"]
            /\ UNCHANGED <<result, via>>
    /\ UNCHANGED <<warrantyCache, clock, fileState, live, cacheSrc, lastStore, cacheLog>>
    /\ UNCHANGED <<chatVars, extractVars, composeVars>>

\* fetchWarrantyFromWebsite() resolved with text t
FetchOk(p) ==
    /\ pc[p] = "fetching"
    /\ \E t \in LiveTexts :
        /\ warrantyCache' = CacheStore(t, now[p])
        /\ result' = [result EXCEPT ![p] = t]
        /\ live' = [live EXCEPT ![p] = t]
        /\ lastStore' = [data |-> t, timestamp |-> now[p]]
    /\ pc' = [pc EXCEPT ![p] = "done"]
    /\ via' = [via EXCEPT ![p] = "live"]
    /\ cacheSrc' = "live"
    /\ cacheLog' = [pending |-> cacheLog.pending \ {p},
                    entry |-> IF p \in cacheLog.pending THEN "liveBefore" ELSE "after",
                    obtained |-> clock,
                    last |-> "stored"]
    /\ UNCHANGED <<clock, fileState, now, overlap>>
    /\ UNCHANGED <<chatVars, extractVars, composeVars>>

\* fetchWarrantyFromWebsite() rejected (network, timeout, parse): the catch block
FetchFail(p) ==
    /\ pc[p] = "fetching"
    /\ live' = [live EXCEPT ![p] = "fail"]
    /\ LET fileData == FallbackRead(fileState) IN
       IF fileData # Null
       THEN /\ warrantyCache' = CacheStore(fileData, now[p])
            /\ result' = [result EXCEPT ![p] = fileData]
            /\ lastStore' = [data |-> fileData, timestamp |-> now[p]]
            /\ pc' = [pc EXCEPT ![p] = "done"]
            /\ via' = [via EXCEPT ![p] = "file"]
            /\ cacheSrc' = "file"
            /\ cacheLog' = [pending |-> cacheLog.pending \ {p},
                            entry |-> IF p \in cacheLog.pending THEN "fileBefore"
                                      ELSE "after",
                            obtained |-> clock,
                            last |-> "stored"]
       ELSE /\ pc' = [pc EXCEPT ![p] = "failed"]
            /\ cacheLog' = [cacheLog EXCEPT !.pending = @ \ {p},
                                            !.last = IF overlap[p] THEN "failedOverlapped"
                                                     ELSE "failed"]
            /\ UNCHANGED <<warrantyCache, result, lastStore, via, cacheSrc>>
    /\ UNCHANGED <<clock, fileState, now, overlap>>
    /\ UNCHANGED <<chatVars, extractVars, composeVars>>

\* the caller has consumed the outcome; the invocation's locals are gone
Return(p) ==
    /\ pc[p] \in {"done", "failed"}
    /\ pc' = [pc EXCEPT ![p] = "idle"]
    /\ now' = [now EXCEPT ![p] = 0]
    /\ result' = [result EXCEPT ![p] = Null]
    /\ via' = [via EXCEPT ![p] = "none"]
    /\ live' = [live EXCEPT ![p] = "none"]
    /\ overlap' = [overlap EXCEPT ![p] = FALSE]
    /\ UNCHANGED <<warrantyCache, clock, fileState, cacheSrc, lastStore, cacheLog>>
    /\ UNCHANGED <<chatVars, extractVars, composeVars>>

clearWarrantyCacheKept ==
    /\ warrantyCache' = warrantyCache
    /\ cacheSrc' = cacheSrc
    /\ lastStore' = lastStore
    /\ cacheLog' = [pending |-> {p \in Procs : pc[p] = "fetching"},
                    entry |-> "none",
                    obtained |-> NullTime,
                    last |-> "cleared"]
    /\ UNCHANGED <<clock, fileState, pc, now, result, via, live, overlap>>
    /\ UNCHANGED <<chatVars, extractVars, composeVars>>

\* warrantyCache = { data: null, timestamp: null }
clearWarrantyCache ==
    /\ warrantyCache' = EmptyCache
    /\ cacheSrc' = "none"
    /\ lastStore' = EmptyCache
    /\ cacheLog' = [pending |-> {p \in Procs : pc[p] = "fetching"},
                    entry |-> "none",
                    obtained |-> NullTime,
                    last |-> "cleared"]
    /\ UNCHANGED <<clock, fileState, pc, now, result, via, live, overlap>>
    /\ UNCHANGED <<chatVars, extractVars, composeVars>>

Tick ==
    /\ clock < MaxClock
    /\ clock' = clock + 1
    /\ UNCHANGED <<warrantyCache, fileState, pc, now, result, via, live,
                   cacheSrc, lastStore, overlap, cacheLog>>
    /\ UNCHANGED <<chatVars, extractVars, composeVars>>

Init == CacheInit /\ ChatIdle /\ ExtractIdle /\ ComposeIdle

Next ==
    \/ \E p \in Procs : GetStart(p)
    \/ \E p \in Procs : FetchOk(p)
    \/ \E p \in Procs : FetchFail(p)
    \/ \E p \in Procs : Return(p)
    \/ clearWarrantyCache
    \/ Tick

Spec == Init /\ [][Next]_vars

-----------------------------------------------------------------------------
(* Claims on the cache                                                     *)

C2_FallbackCachedNoRefetch ==
    [][\A p \in Procs :
        /\ ( /\ pc[p] = "fetching" /\ live'[p] = "fail"
             /\ fileState \in FileContents )
           => ( /\ pc'[p] = "done"
                /\ result'[p] = fileState
                /\ warrantyCache'.data = fileState )
        /\ ( /\ pc[p] = "idle" /\ pc'[p] # "idle"
             /\ cacheSrc = "file"
             /\ clock - warrantyCache.timestamp < CACHE_DURATION )
           => ( /\ pc'[p] = "done"
                /\ result'[p] = warrantyCache.data )
      ]_vars

\* C3: get() fails only when its live fetch failed and warranty.txt is absent
\* or unreadable; when the live fetch succeeded or the file can be read, a
\* finished get() has returned a text.
C3_FailsOnlyWhenBothFail ==
    \A p \in Procs :
        /\ pc[p] = "failed"
           => (live[p] = "fail" /\ fileState \in {FileAbsent, FileUnreadable})
        /\ ( /\ pc[p] \in {"done", "failed"}
             /\ (live[p] \in LiveTexts \/ fileState \in FileContents) )
           => (pc[p] = "done" /\ result[p] # Null)

C3_Witness ==
    \E p, q \in Procs :
        /\ pc[p] = "failed" /\ live[p] = "fail"
        /\ pc[q] = "done" /\ via[q] = "live"

\* C4: each of two racing get() calls returns the text it obtained itself, and
\* the cache always holds the text together with the timestamp of one and the
\* same call, the one that stored last (or nothing after a clear).
C4_LastWriterWinsPaired ==
    /\ warrantyCache = lastStore
    /\ (warrantyCache.data = Null) <=> (warrantyCache.timestamp = NullTime)
    /\ \A p \in Procs :
        /\ (pc[p] = "done" /\ via[p] = "live") => result[p] = live[p]
        /\ (pc[p] = "done" /\ via[p] = "file") => result[p] = fileState

C4_Witness ==
    \E p, q \in Procs :
        /\ p # q
        /\ pc[p] = "done" /\ pc[q] = "done"
        /\ via[p] = "live" /\ via[q] = "live"
        /\ overlap[p] /\ overlap[q]
        /\ result[p] # result[q]
        /\ now[p] # now[q]
        /\ clock > now[p] /\ clock > now[q]
        /\ warrantyCache = [data |-> result[p], timestamp |-> now[p]]

-----------------------------------------------------------------------------
(* Strings: the JavaScript string operations the code uses                 *)

Char(s, i) == SubSeq(s, i, i)

\* String.prototype.includes
Includes(s, sub) ==
    \E i \in 1..(Len(s) - Len(sub) + 1) : SubSeq(s, i, i + Len(sub) - 1) = sub

UpperChars == "ABCDEFGHIJKLMNOPQRSTUVWXYZ"
LowerChars == "abcdefghijklmnopqrstuvwxyz"
DigitChars == "0123456789"

UpperSet == {Char(UpperChars, i) : i \in 1..Len(UpperChars)}
LowerSet == {Char(LowerChars, i) : i \in 1..Len(LowerChars)}
DigitSet == {Char(DigitChars, i) : i \in 1..Len(DigitChars)}

LowerMap ==
    [c \in UpperSet |->
        Char(LowerChars, CHOOSE i \in 1..Len(UpperChars) : Char(UpperChars, i) = c)]
UpperMap ==
    [c \in LowerSet |->
        Char(UpperChars, CHOOSE i \in 1..Len(LowerChars) : Char(LowerChars, i) = c)]

IsUpper(c) == c \in UpperSet
IsDigit(c) == c \in DigitSet
IsSpace(c) == c = " " \/ c = "\n"

LowerChar(c) == IF c \in UpperSet THEN LowerMap[c] ELSE c
UpperChar(c) == IF c \in LowerSet THEN UpperMap[c] ELSE c

\* String.prototype.toLowerCase
ToLower(s) ==
    LET low[lo \in 1..(Len(s) + 1), hi \in 0..Len(s)] ==
            IF lo > hi THEN ""
            ELSE IF lo = hi THEN LowerChar(Char(s, lo))
            ELSE low[lo, (lo + hi) \div 2] \o low[((lo + hi) \div 2) + 1, hi]
    IN low[1, Len(s)]

\* String.prototype.toUpperCase
ToUpper(s) ==
    LET up[lo \in 1..(Len(s) + 1), hi \in 0..Len(s)] ==
            IF lo > hi THEN ""
            ELSE IF lo = hi THEN UpperChar(Char(s, lo))
            ELSE up[lo, (lo + hi) \div 2] \o up[((lo + hi) \div 2) + 1, hi]
    IN up[1, Len(s)]

\* String.prototype.startsWith
StartsWith(s, prefix) == Len(s) >= Len(prefix) /\ SubSeq(s, 1, Len(prefix)) = prefix

MinOf(S) == CHOOSE x \in S : \A y \in S : x <= y
MaxOf(S) == CHOOSE x \in S : \A y \in S : x >= y

\* first index >= i of s that holds no white space (Len(s) + 1 if none): \s*
SkipSpaces(s, i) ==
    MinOf({j \in i..(Len(s) + 1) : j = Len(s) + 1 \/ ~IsSpace(Char(s, j))})

\* first index >= i of s that holds no digit (Len(s) + 1 if none): \d*
SkipDigits(s, i) ==
    MinOf({j \in i..(Len(s) + 1) : j = Len(s) + 1 \/ ~IsDigit(Char(s, j))})

\* String.prototype.trim
Trim(s) ==
    LET a == SkipSpaces(s, 1)
        b == MaxOf({j \in 0..Len(s) : j = 0 \/ ~IsSpace(Char(s, j))})
    IN IF a > b THEN "" ELSE SubSeq(s, a, b)

\* index of the first occurrence of sub in s, 0 if none: String.prototype.indexOf + 1
IndexOf(s, sub) ==
    LET hits == {i \in 1..(Len(s) - Len(sub) + 1) : SubSeq(s, i, i + Len(sub) - 1) = sub}
    IN IF hits = {} THEN 0 ELSE MinOf(hits)

\* Array.prototype.join
Join(seq, sep) ==
    LET acc[lo \in 1..(Len(seq) + 1), hi \in 0..Len(seq)] ==
            IF lo > hi THEN ""
            ELSE IF lo = hi THEN seq[lo]
            ELSE acc[lo, (lo + hi) \div 2] \o sep \o acc[((lo + hi) \div 2) + 1, hi]
    IN acc[1, Len(seq)]

\* concatenation of a sequence of sequences
Flatten(seqs) ==
    LET acc[lo \in 1..(Len(seqs) + 1), hi \in 0..Len(seqs)] ==
            IF lo > hi THEN <<>>
            ELSE IF lo = hi THEN seqs[lo]
            ELSE acc[lo, (lo + hi) \div 2] \o acc[((lo + hi) \div 2) + 1, hi]
    IN acc[1, Len(seqs)]

\* a regular expression that is an alternation of literals, unanchored
MatchesAny(s, alternatives) == \E a \in alternatives : Includes(s, a)

-----------------------------------------------------------------------------
(* POST /api/chat and getHuggingFaceResponse: backend/server.js            *)

MaxCalls == 3

Messages == {"", "bye", "What is tablet warranty period?", "where is my order",
             "galaxy ring", "thanks"}

HFOutcomes == {"good", "short", "loading", "unavailable", "httpError", "networkError"}

\* messageLower.match(/(warranty|warranties|tablet|smartphone|phone|watch|...)/)
WarrantyLike(message) ==
    MatchesAny(ToLower(message),
               {"warranty", "warranties", "tablet", "smartphone", "phone", "watch",
                "buds", "headphone", "charger", "battery", "s pen", "strap"})

ChatInit ==
    /\ chatPc = "idle"
    /\ useOpenAI \in BOOLEAN
    /\ chatMsg = "none"
    /\ hfCalls = 0
    /\ chatReply = "none"
    /\ chatKb = "none"

CountCall(n) == IF n < MaxCalls THEN n + 1 ELSE n

\* the handler up to its first await
ChatReceive ==
    /\ chatPc = "idle"
    /\ \E m \in Messages :
        /\ chatMsg' = m
        /\ IF m = ""
           THEN chatPc' = "done" /\ chatReply' = "error400" /\ hfCalls' = 0
           ELSE IF useOpenAI
           THEN chatPc' = "kb" /\ chatReply' = "none" /\ hfCalls' = 0
           ELSE chatPc' = "hf" /\ chatReply' = "none" /\ hfCalls' = 1
    /\ UNCHANGED <<useOpenAI, chatKb>>
    /\ UNCHANGED <<cacheVars, extractVars, composeVars>>

\* await getWarrantyKnowledgeBase() settled (a text or null, it never throws)
ChatKBLoaded ==
    /\ chatPc = "kb"
    /\ chatPc' = "openai"
    /\ chatKb' \in {"text", "null"}
    /\ UNCHANGED <<useOpenAI, chatMsg, hfCalls, chatReply>>
    /\ UNCHANGED <<cacheVars, extractVars, composeVars>>

\* await openai.chat.completions.create(...) settled
ChatOpenAIDone ==
    /\ chatPc = "openai"
    /\ \E ok \in BOOLEAN :
        IF ok
        THEN chatPc' = "done" /\ chatReply' = "generated"
        ELSE IF WarrantyLike(chatMsg)
        THEN chatPc' = "kbFallback" /\ chatReply' = "none"
        ELSE chatPc' = "done" /\ chatReply' = "canned"
    /\ UNCHANGED <<useOpenAI, chatMsg, hfCalls, chatKb>>
    /\ UNCHANGED <<cacheVars, extractVars, composeVars>>

\* the catch (openaiError) branch after its await getWarrantyKnowledgeBase()
ChatKBFallback ==
    /\ chatPc = "kbFallback"
    /\ \E kb \in {"text", "null"}, found \in BOOLEAN :
        /\ chatKb' = kb
        /\ chatReply' = IF kb = "text" /\ found THEN "extracted" ELSE "canned"
    /\ chatPc' = "done"
    /\ UNCHANGED <<useOpenAI, chatMsg, hfCalls>>
    /\ UNCHANGED <<cacheVars, extractVars, composeVars>>

\* what getHuggingFaceResponse does with the settled fetch: "retry" is the
\* timed wait followed by the recursive call
HFAfter(outcome) ==
    IF outcome = "good" THEN "generated"
    ELSE IF outcome = "loading" THEN "retry"
    ELSE "canned"

\* await fetch(HUGGING_FACE_API_URL, ...) settled
HFRespond ==
    /\ chatPc = "hf"
    /\ \E outcome \in HFOutcomes :
        LET next == HFAfter(outcome) IN
        IF next = "retry"
        THEN chatPc' = "hfWait" /\ chatReply' = "none"
        ELSE chatPc' = "done" /\ chatReply' = next
    /\ UNCHANGED <<useOpenAI, chatMsg, hfCalls, chatKb>>
    /\ UNCHANGED <<cacheVars, extractVars, composeVars>>

\* the setTimeout of estimated_time * 1000 + 2000 fired: return getHuggingFaceResponse(userMessage)
HFRetry ==
    /\ chatPc = "hfWait"
    /\ chatPc' = "hf"
    /\ hfCalls' = CountCall(hfCalls)
    /\ UNCHANGED <<useOpenAI, chatMsg, chatReply, chatKb>>
    /\ UNCHANGED <<cacheVars, extractVars, composeVars>>

\* res.json(...) sent; the next request may arrive
ChatRespond ==
    /\ chatPc = "done"
    /\ chatPc' = "idle"
    /\ chatMsg' = "none"
    /\ hfCalls' = 0
    /\ chatReply' = "none"
    /\ chatKb' = "none"
    /\ UNCHANGED useOpenAI
    /\ UNCHANGED <<cacheVars, extractVars, composeVars>>

ChatNext ==
    \/ ChatReceive
    \/ ChatKBLoaded
    \/ ChatOpenAIDone
    \/ ChatKBFallback
    \/ HFRespond
    \/ HFRetry
    \/ ChatRespond

InitChat == CacheIdle /\ ChatInit /\ ExtractIdle /\ ComposeIdle

SpecChat == InitChat /\ [][ChatNext]_vars

\* every pending await of the handler eventually settles (the event loop runs
\* the continuation); nothing is assumed about what the remote side answers
FairSpecChat ==
    /\ SpecChat
    /\ WF_vars(ChatKBLoaded) /\ WF_vars(ChatOpenAIDone) /\ WF_vars(ChatKBFallback)
    /\ WF_vars(HFRespond) /\ WF_vars(HFRetry)

-----------------------------------------------------------------------------
(* Claims on the chat request                                              *)

\* C5: for one user message the Hugging Face endpoint is called at most
\* twice, also when the re-attempt is answered with the retry signal again.
C5_AtMostOneRetry == hfCalls <= 2

\* C6: every chat request that was received eventually completes with a
\* reply, whatever the remote services answer.
C6_EveryRequestCompletes == (chatPc # "idle") ~> (chatPc = "done")

-----------------------------------------------------------------------------
(* Live Source Fetcher: the knowledge text fetchWarrantyFromWebsite writes *)

ServiceSentence ==
    "Our Samsung Authorised Service Partners offer both In and Out of warranty repairs."

AllRepairs == <<"In-store repair", "Pick up repair", "Doorstep repair">>
StoreAndPickUp == <<"In-store repair", "Pick up repair">>
PickUpOnly == <<"Pick up repair">>

\* productWarrantyMap: key -> {period, services}
productWarrantyMap ==
    [k \in {"smartphone", "tablet", "galaxy buds", "wireless headphones",
            "galaxy watch", "gear smart watch", "galaxy ring", "charger", "battery",
            "wired headphones", "watch strap", "s pen", "cooker hood", "hood",
            "robotic vacuum cleaners", "robotic vacuum", "vacuum cleaners",
            "vacuum cleaner", "large format display", "set back box", "sbb",
            "monitor", "monitor for consumers", "oled monitor",
            "oled monitor for consumers"} |->
        IF k \in {"large format display", "set back box", "sbb"}
        THEN [period |-> "36 Months", services |-> AllRepairs]
        ELSE IF k = "watch strap"
        THEN [period |-> "6 Months", services |-> StoreAndPickUp]
        ELSE IF k = "galaxy ring"
        THEN [period |-> "12 Months", services |-> PickUpOnly]
        ELSE IF k \in {"galaxy buds", "wireless headphones", "charger", "battery",
                       "wired headphones", "s pen"}
        THEN [period |-> "12 Months", services |-> StoreAndPickUp]
        ELSE [period |-> "24 Months", services |-> AllRepairs]]

\* the four lines and the blank line written for one section
SectionLines(header, period, services) ==
    << header \o ":",
       "- Warranty period: " \o period,
       "- Warranty service offered: " \o ServiceSentence,
       "- Repair services available: " \o Join(services, ", "),
       "" >>

\* the section written for a recognized product key
RecordLines(productKey) ==
    SectionLines(ToUpper(productKey), productWarrantyMap[productKey].period,
                 productWarrantyMap[productKey].services)

\* the hard-coded catalog
CatalogLines ==
    <<"=== HOME APPLIANCES WARRANTY ===", "">>
    \o SectionLines("COOKER HOOD", "24 Months", AllRepairs)
    \o SectionLines("ROBOTIC VACUUM CLEANERS", "24 Months", AllRepairs)
    \o SectionLines("VACUUM CLEANERS", "24 Months", AllRepairs)
    \o <<"=== MOBILE DEVICES WARRANTY ===", "">>
    \o SectionLines("SMARTPHONE (including Certified Re-Newed model)", "24 Months", AllRepairs)
    \o SectionLines("TABLET", "24 Months", AllRepairs)
    \o SectionLines("GALAXY BUDS AND WIRELESS HEADPHONES", "12 Months", StoreAndPickUp)
    \o SectionLines("GALAXY AND GEAR SMART WATCH", "24 Months", AllRepairs)
    \o SectionLines("GALAXY RING", "12 Months", PickUpOnly)
    \o <<"=== DISPLAY PRODUCTS WARRANTY ===", "">>
    \o SectionLines("LARGE FORMAT DISPLAY", "36 Months", AllRepairs)
    \o SectionLines("SET BACK BOX - SBB", "36 Months", AllRepairs)
    \o SectionLines("MONITOR (FOR CONSUMERS)", "24 Months", AllRepairs)
    \o SectionLines("OLED MONITOR (FOR CONSUMERS)", "24 Months", AllRepairs)

\* if (!warrantyInfo.includes('SMARTPHONE:') && !warrantyInfo.includes('COOKER HOOD:'))
CatalogNeeded(lines) ==
    /\ ~\E i \in 1..Len(lines) : Includes(lines[i], "SMARTPHONE:")
    /\ ~\E i \in 1..Len(lines) : Includes(lines[i], "COOKER HOOD:")

MaxFaqsWritten == 20

FaqLines(faqs) ==
    Flatten([i \in 1..Len(faqs) |->
        IF i <= MaxFaqsWritten
        THEN <<"Q: " \o faqs[i].question, "A: " \o faqs[i].answer, "">>
        ELSE <<>>])

\* the text fetchWarrantyFromWebsite returns, as split('\n') sees it
FetcherText(records, faqs) ==
    LET head == <<"SAMSUNG WARRANTY INFORMATION - COMPREHENSIVE GUIDE", "",
                  "=== STANDARD WARRANTY ===",
                  "All Samsung products come with a standard manufacturer's warranty.",
                  "",
                  "=== MOBILE DEVICES WARRANTY ===", "">>
                \o Flatten([i \in 1..Len(records) |-> RecordLines(records[i])])
        body == IF CatalogNeeded(head) THEN head \o CatalogLines ELSE head
    IN body
       \o <<"=== WARRANTY FAQs ===", "">>
       \o FaqLines(faqs)
       \o <<"=== GENERAL WARRANTY INFORMATION ===",
            "To obtain warranty service, the original proof of purchase will be required and the serial number affixed to the product must be complete and undamaged.",
            "The warranty covers defects in materials and workmanship.",
            "You can register your Samsung product online through My Page to receive faster support.",
            "",
            "=== TROUBLESHOOTING AND REPAIRS ===",
            "Need help with your product? Try our online troubleshooter to resolve the problem. If it hasn't solved the issue you're experiencing, you can book a repair online too.",
            "",
            "=== CONTACT INFORMATION ===",
            "For support buying a product, help with an order or technical product support, please contact Samsung using the details in the Contact Us section.",
            "Troubleshoot and book a repair: https://www.samsung.com/uk/support/repair/",
            "Contact us: https://www.samsung.com/uk/support/contact/",
            "">>

-----------------------------------------------------------------------------
(* Answer Extraction Engine, strategy a: the Product Matcher               *)

\* productKeywords, in the order of the object literal
productKeywords ==
    << [product |-> "tablet", keywords |-> <<"tablet", "tab">>],
       [product |-> "smartphone", keywords |-> <<"smartphone", "phone", "galaxy">>],
       [product |-> "watch", keywords |-> <<"watch", "gear">>],
       [product |-> "buds", keywords |-> <<"buds", "headphone", "earphone">>],
       [product |-> "charger", keywords |-> <<"charger">>],
       [product |-> "battery", keywords |-> <<"battery">>],
       [product |-> "s pen", keywords |-> <<"s pen", "spen", "pen">>],
       [product |-> "strap", keywords |-> <<"strap", "band">>],
       [product |-> "ring", keywords |-> <<"ring", "galaxy ring">>],
       [product |-> "cooker hood", keywords |-> <<"cooker hood", "hood", "cooker">>],
       [product |-> "vacuum cleaners",
        keywords |-> <<"vacuum cleaners", "vacuum cleaner", "vacuum", "robotic vacuum">>],
       [product |-> "robotic vacuum cleaners",
        keywords |-> <<"robotic vacuum cleaners", "robotic vacuum">>],
       [product |-> "monitor",
        keywords |-> <<"monitor", "monitors", "display", "monitor for consumers">>],
       [product |-> "large format display",
        keywords |-> <<"large format display", "large format">>],
       [product |-> "set back box", keywords |-> <<"set back box", "sbb", "back box">>],
       [product |-> "oled monitor",
        keywords |-> <<"oled monitor", "oled monitor for consumers", "oled">>] >>

\* keywords.some(keyword => message.includes(keyword))
HasKeyword(message, keywords) ==
    \E k \in 1..Len(keywords) : Includes(message, keywords[k])

\* the loop that finds matchedProduct: the first entry with a keyword in the message
MatchedProduct(message) ==
    LET hits == {i \in 1..Len(productKeywords) :
                    HasKeyword(message, productKeywords[i].keywords)}
    IN IF hits = {} THEN Null ELSE productKeywords[MinOf(hits)].product

\* line.match(/^[A-Z\s]+:$/)
IsHeaderLine(line) ==
    /\ Len(line) >= 2
    /\ Char(line, Len(line)) = ":"
    /\ \A i \in 1..(Len(line) - 1) : IsUpper(Char(line, i)) \/ IsSpace(Char(line, i))

\* line.replace(':', '')
RemoveFirstColon(line) ==
    LET k == IndexOf(line, ":")
    IN IF k = 0 THEN line ELSE SubSeq(line, 1, k - 1) \o SubSeq(line, k + 1, Len(line))

\* the condition that enters a product section
SectionMatches(mp, productName) ==
    \/ Includes(productName, mp)
    \/ (mp = "tablet" /\ productName = "tablet")
    \/ (mp = "smartphone" /\ (Includes(productName, "smartphone") \/ Includes(productName, "phone")))
    \/ (mp = "watch" /\ (Includes(productName, "watch") \/ Includes(productName, "gear")))
    \/ (mp = "buds" /\ (Includes(productName, "buds") \/ Includes(productName, "headphone")))
    \/ (mp = "charger" /\ Includes(productName, "charger"))
    \/ (mp = "battery" /\ Includes(productName, "battery"))
    \/ (mp = "s pen" /\ Includes(productName, "pen"))
    \/ (mp = "strap" /\ Includes(productName, "strap"))
    \/ (mp = "ring" /\ Includes(productName, "ring"))
    \/ (mp = "cooker hood" /\ (Includes(productName, "cooker hood") \/ Includes(productName, "hood")))
    \/ (mp = "vacuum cleaners" /\ (Includes(productName, "vacuum") \/ Includes(productName, "cleaner")))
    \/ (mp = "robotic vacuum cleaners"
          /\ (Includes(productName, "robotic vacuum") \/ Includes(productName, "robotic")))
    \/ (mp = "monitor" /\ (Includes(productName, "monitor") \/ Includes(productName, "display")))
    \/ (mp = "large format display"
          /\ (Includes(productName, "large format") \/ Includes(productName, "format display")))
    \/ (mp = "set back box"
          /\ (Includes(productName, "set back box") \/ Includes(productName, "sbb")
                \/ Includes(productName, "back box")))
    \/ (mp = "oled monitor" /\ (Includes(productName, "oled monitor") \/ Includes(productName, "oled")))

\* line.match(/Warranty period:\s*(\d+)\s*Months?/i): the digits, Null if no match
PeriodDigits(line) ==
    LET ll == ToLower(line)
        label == "warranty period:"
        ok(k) == LET b == SkipSpaces(ll, k + Len(label))
                     c == SkipDigits(ll, b)
                     d == SkipSpaces(ll, c)
                 IN c > b /\ SubSeq(ll, d, d + 4) = "month"
        hits == {k \in 1..(Len(ll) - Len(label) + 1) :
                    SubSeq(ll, k, k + Len(label) - 1) = label /\ ok(k)}
    IN IF hits = {} THEN Null
       ELSE LET b == SkipSpaces(ll, MinOf(hits) + Len(label))
            IN SubSeq(line, b, SkipDigits(ll, b) - 1)

\* line.replace(/- Warranty service offered:\s*/i, '').trim()
ServiceOf(line) ==
    LET ll == ToLower(line)
        label == "- warranty service offered:"
        k == IndexOf(ll, label)
    IN Trim(SubSeq(line, 1, k - 1) \o SubSeq(line, SkipSpaces(ll, k + Len(label)), Len(line)))

\* the inner loop after a "- Repair services available:" line at index i
RepairListOf(lines, i) ==
    LET last == IF Len(lines) < i + 9 THEN Len(lines) ELSE i + 9
        scan[j \in i..last] ==
            IF j = i THEN [list |-> <<>>, stop |-> FALSE]
            ELSE LET prev == scan[j - 1]
                     nextLine == Trim(lines[j])
                 IN IF prev.stop THEN prev
                    ELSE IF StartsWith(nextLine, "- ")
                    THEN [prev EXCEPT !.list = Append(@, SubSeq(nextLine, 3, Len(nextLine)))]
                    ELSE IF nextLine = "" \/ IsUpper(Char(nextLine, 1))
                    THEN [prev EXCEPT !.stop = TRUE]
                    ELSE prev
    IN scan[last].list

\* one iteration of the loop over the lines, for the line at index i
ScanLine(mp, lines, st, i) ==
    LET line == Trim(lines[i])
        ll == ToLower(line)
    IN IF st.stop THEN st
       ELSE IF IsHeaderLine(line) /\ SectionMatches(mp, ToLower(RemoveFirstColon(line)))
       THEN [st EXCEPT !.inProductSection = TRUE, !.productSection = line]
       ELSE IF IsHeaderLine(line) /\ st.inProductSection
       THEN [st EXCEPT !.stop = TRUE]
       ELSE IF ~st.inProductSection THEN st
       ELSE [inProductSection |-> TRUE,
             productSection |-> st.productSection,
             warrantyPeriod |->
                 IF Includes(ll, "- warranty period:") /\ PeriodDigits(line) # Null
                 THEN PeriodDigits(line) \o " Months"
                 ELSE st.warrantyPeriod,
             warrantyService |->
                 IF Includes(ll, "- warranty service offered:")
                 THEN ServiceOf(line)
                 ELSE st.warrantyService,
             repairServices |->
                 IF Includes(ll, "- repair services available:")
                 THEN RepairListOf(lines, i)
                 ELSE st.repairServices,
             stop |->
                 \/ StartsWith(line, "===")
                 \/ (IsHeaderLine(line) /\ ~Includes(line, st.productSection))]

\* the loop over the lines for the section of matchedProduct: the variables
\* after the last iteration. The lines are taken in blocks of 8; each block
\* and each iteration starts from the value the one before it left.
SectionScan(mp, lines) ==
    LET blocks == (Len(lines) + 7) \div 8
        blk[k \in 0..blocks] ==
            IF k = 0
            THEN NothingFound
            ELSE CHOOSE after \in
                    { IF prev.stop THEN prev
                      ELSE LET lo == (k - 1) * 8 + 1
                               hi == IF k * 8 < Len(lines) THEN k * 8 ELSE Len(lines)
                               iter[j \in (lo - 1)..hi] ==
                                   IF j = lo - 1 THEN prev
                                   ELSE CHOOSE next \in
                                           {ScanLine(mp, lines, st, j) : st \in {iter[j - 1]}} :
                                           TRUE
                           IN iter[hi]
                      : prev \in {blk[k - 1]} } : TRUE
    IN blk[blocks]

\* the reply built from what the scan found
ComposeWarranty(warrantyPeriod, warrantyService, repairServices) ==
    ("Warranty period: " \o warrantyPeriod)
    \o (IF warrantyService # Null /\ warrantyService # ""
        THEN ". " \o warrantyService ELSE "")
    \o (IF Len(repairServices) > 0
        THEN ". Repair services available: " \o Join(repairServices, ", ") \o "."
        ELSE "")

\* the same section in the layout the inner loop of the matcher reads: the
\* label on a line of its own and one indented "- " entry per service
ListedSectionLines(productKey) ==
    << ToUpper(productKey) \o ":",
       "- Warranty period: " \o productWarrantyMap[productKey].period,
       "- Warranty service offered: " \o ServiceSentence,
       "- Repair services available:" >>
    \o [k \in 1..Len(productWarrantyMap[productKey].services) |->
            "  - " \o productWarrantyMap[productKey].services[k]]
    \o << "" >>

\* a data/warranty.txt written in that layout, as split('\n') sees it
FileText(records) ==
    <<"SAMSUNG WARRANTY INFORMATION", "">>
    \o Flatten([i \in 1..Len(records) |-> ListedSectionLines(records[i])])

-----------------------------------------------------------------------------
(* Answer Extraction Engine, strategy b: the Q&A Scorer                    *)

\* String.prototype.split(/\s+/)
SplitSpaces(s) ==
    LET starts == {i \in 1..Len(s) :
                      ~IsSpace(Char(s, i)) /\ (i = 1 \/ IsSpace(Char(s, i - 1)))}
        endOf(i) == MinOf({j \in i..Len(s) : j = Len(s) \/ IsSpace(Char(s, j + 1))})
        nth(k) == CHOOSE i \in starts : Cardinality({j \in starts : j < i}) = k - 1
        runs == [k \in 1..Cardinality(starts) |-> SubSeq(s, nth(k), endOf(nth(k)))]
    IN IF s = "" THEN <<"">>
       ELSE (IF IsSpace(Char(s, 1)) THEN <<"">> ELSE <<>>)
            \o runs
            \o (IF IsSpace(Char(s, Len(s))) THEN <<"">> ELSE <<>>)

\* line.replace(/^Q:\s*/, '') and its like: the label at the start and the
\* white space after it are removed, a line without the label is kept
StripLabel(line, label) ==
    IF StartsWith(line, label)
    THEN SubSeq(line, SkipSpaces(line, Len(label) + 1), Len(line))
    ELSE line

\* one iteration of the loop that collects the pairs, for the line at index i
QALine(lines, st, i) ==
    LET line == Trim(lines[i])
    IN IF StartsWith(line, "Q:") \/ StartsWith(line, "QUESTIONS ABOUT")
       THEN [inQA |-> TRUE,
             currentQ |-> ToLower(StripLabel(line, "Q:")),
             currentA |-> "",
             qaPairs |-> IF st.currentQ # "" /\ st.currentA # ""
                         THEN Append(st.qaPairs,
                                     [question |-> st.currentQ, answer |-> st.currentA])
                         ELSE st.qaPairs]
       ELSE IF st.inQA /\ StartsWith(line, "A:")
       THEN [st EXCEPT !.currentA = StripLabel(line, "A:")]
       ELSE IF st.inQA /\ st.currentA # "" /\ Len(line) > 0
       THEN [st EXCEPT !.currentA = @ \o " " \o line]
       ELSE IF st.inQA /\ Len(line) = 0 /\ st.currentA # ""
       THEN [st EXCEPT !.inQA = FALSE]
       ELSE st

\* qaPairs after the loop and the push that follows it. The lines are taken
\* in blocks of 8; each block and each iteration starts from the value the
\* one before it left.
ParseQAPairs(lines) ==
    LET blocks == (Len(lines) + 7) \div 8
        blk[k \in 0..blocks] ==
            IF k = 0
            THEN [inQA |-> FALSE, currentQ |-> "", currentA |-> "", qaPairs |-> <<>>]
            ELSE CHOOSE after \in
                    { LET lo == (k - 1) * 8 + 1
                          hi == IF k * 8 < Len(lines) THEN k * 8 ELSE Len(lines)
                          iter[j \in (lo - 1)..hi] ==
                              IF j = lo - 1 THEN prev
                              ELSE CHOOSE next \in
                                      {QALine(lines, st, j) : st \in {iter[j - 1]}} : TRUE
                      IN iter[hi]
                      : prev \in {blk[k - 1]} } : TRUE
    IN CHOOSE pairs \in
          { IF last.currentQ # "" /\ last.currentA # ""
            THEN Append(last.qaPairs,
                        [question |-> last.currentQ, answer |-> last.currentA])
            ELSE last.qaPairs
            : last \in {blk[blocks]} } : TRUE

StopWords == {"how", "what", "when", "where", "why", "can", "do", "i", "my", "the", "a", "an"}

\* importantWords of a question
ImportantWords(qLower) ==
    LET LongEnough(w) == Len(w) > 2
        Important(w) == Len(w) > 3 /\ w \notin StopWords
    IN SelectSeq(SelectSeq(SplitSpaces(qLower), LongEnough), Important)

\* messageWords
MessageWords(message) ==
    LET LongEnough(w) == Len(w) > 2
        kept == SelectSeq(SplitSpaces(message), LongEnough)
    IN [k \in 1..Len(kept) |-> ToLower(kept[k])]

\* the number of important words some message word matches
MatchingWords(importantWords, messageWords) ==
    LET Matched(qWord) ==
            \E k \in 1..Len(messageWords) :
                \/ messageWords[k] = qWord
                \/ /\ Len(qWord) > 4
                   /\ (Includes(messageWords[k], qWord) \/ Includes(qWord, messageWords[k]))
    IN Len(SelectSeq(importantWords, Matched))

\* the keyword bonuses
Bonuses ==
    << [word |-> "track", points |-> 20], [word |-> "cancel", points |-> 20],
       [word |-> "latest", points |-> 20], [word |-> "order id", points |-> 30],
       [word |-> "all order", points |-> 30], [word |-> "reorder", points |-> 20],
       [word |-> "change", points |-> 20], [word |-> "wrong item", points |-> 30] >>

BonusPoints(message, qLower) ==
    LET pts[k \in 0..Len(Bonuses)] ==
            IF k = 0 THEN 0
            ELSE pts[k - 1]
                 + (IF Includes(message, Bonuses[k].word) /\ Includes(qLower, Bonuses[k].word)
                    THEN Bonuses[k].points ELSE 0)
    IN pts[Len(Bonuses)]

\* the score of one pair, as the fraction num / den with den > 0: the whole
\* points times den, plus (matchingWords / importantWords.length) * 50
Score(message, qa) ==
    LET qLower == ToLower(qa.question)
        qPhrase == Trim(StripLabel(qLower, "q:"))
        importantWords == ImportantWords(qLower)
        matchingWords == MatchingWords(importantWords, MessageWords(message))
        whole == (IF Includes(message, qPhrase) \/ Includes(qPhrase, message)
                  THEN 100 ELSE 0)
                 + BonusPoints(message, qLower)
                 - (IF Includes(qLower, "track") /\ ~Includes(message, "track")
                       /\ ~Includes(message, "order")
                    THEN 10 ELSE 0)
    IN IF Len(importantWords) > 0
       THEN [num |-> whole * Len(importantWords) + matchingWords * 50,
             den |-> Len(importantWords)]
       ELSE [num |-> whole, den |-> 1]

\* a > b on scores
Greater(a, b) == a.num * b.den > b.num * a.den

\* if (score >= bestScore)
ReplacesBestOnTie(score, bestScore) == ~Greater(bestScore, score)

\* if (score > bestScore)
ReplacesBest(score, bestScore) == Greater(score, bestScore)

\* bestScore > 15
GoodMatch(bestScore) == bestScore.num > 15 * bestScore.den

\* one iteration of the loop over qaPairs
BestStep(st, score, i) ==
    IF ReplacesBest(score, st.bestScore)
    THEN [bestMatch |-> i, bestScore |-> score]
    ELSE st

\* the loop over qaPairs: bestMatch is the index of the pair, 0 for null
BestPair(message, pairs) ==
    LET best[i \in 0..Len(pairs)] ==
            IF i = 0 THEN [bestMatch |-> 0, bestScore |-> [num |-> 0, den |-> 1]]
            ELSE CHOOSE next \in
                    {BestStep(st, score, i) :
                        st \in {best[i - 1]}, score \in {Score(message, pairs[i])}} : TRUE
    IN best[Len(pairs)]

-----------------------------------------------------------------------------
(* Answer Extraction Engine, strategies c, d and e: the fallbacks          *)

\* the k-th smallest element of a finite set of integers
NthOf(S, k) == CHOOSE i \in S : Cardinality({j \in S : j < i}) = k - 1

\* String.prototype.split on a regular expression: the pieces of text left
\* between the separators, given as the set of the first and the last index
\* of each separator. A separator at an end of the text leaves an empty piece.
Pieces(text, firsts, lasts) ==
    LET n == Cardinality(firsts)
        from(k) == IF k = 1 THEN 1 ELSE NthOf(lasts, k - 1) + 1
        to(k) == IF k = n + 1 THEN Len(text) ELSE NthOf(firsts, k) - 1
    IN [k \in 1..(n + 1) |-> SubSeq(text, from(k), to(k))]

\* text.split(/[.!?]+/) for sentences, text.split(/\n\n+/) for paragraphs (a
\* separator is a run of two line feeds or more), text.split('\n') for lines
Split(text, by) ==
    LET is(i, chars) == i >= 1 /\ i <= Len(text) /\ Char(text, i) \in chars
        ends == {".", "!", "?"}
        nl == {"\n"}
    IN IF by = "sentences"
       THEN Pieces(text,
                   {i \in 1..Len(text) : is(i, ends) /\ ~is(i - 1, ends)},
                   {i \in 1..Len(text) : is(i, ends) /\ ~is(i + 1, ends)})
       ELSE IF by = "paragraphs"
       THEN Pieces(text,
                   {i \in 1..Len(text) : is(i, nl) /\ ~is(i - 1, nl) /\ is(i + 1, nl)},
                   {i \in 1..Len(text) : is(i, nl) /\ ~is(i + 1, nl) /\ is(i - 1, nl)})
       ELSE Pieces(text, {i \in 1..Len(text) : is(i, nl)}, {i \in 1..Len(text) : is(i, nl)})

\* text.split(/[.!?]+/).filter(s => s.trim().length > longer).slice(0, n).join('. ').trim() + '.'
FirstSentences(text, longer, n) ==
    LET sentences == SelectSeq(Split(text, "sentences"), LAMBDA s : Len(Trim(s)) > longer)
    IN Trim(Join(SubSeq(sentences, 1, IF Len(sentences) < n THEN Len(sentences) ELSE n),
                 ". ")) \o "."

\* message.split(/\s+/).filter(w => w.length > 3)
LongWords(message) == SelectSeq(SplitSpaces(message), LAMBDA w : Len(w) > 3)

\* messageWords.filter(word => text.toLowerCase().includes(word)).length
MatchCount(messageWords, text) ==
    CHOOSE n \in {Cardinality({k \in 1..Len(messageWords) : Includes(lower, messageWords[k])}) :
                     lower \in {ToLower(text)}} : TRUE

\* line.match(/^[A-Z\s]+:$/) || line.match(/^===/)
IsSectionStart(line) == IsHeaderLine(line) \/ StartsWith(line, "===")

\* one iteration of the loop of the section fallback: the section gathered
\* so far is counted when the next header line arrives
SectionLine(messageWords, lines, st, i) ==
    IF IsSectionStart(lines[i])
    THEN IF st.currentSection # "" /\ st.bestMatchCount < 3
         THEN CHOOSE next \in
                 { IF matchCount > st.bestMatchCount
                   THEN [currentSection |-> lines[i] \o "\n",
                         bestSection |-> st.currentSection,
                         bestMatchCount |-> matchCount]
                   ELSE [st EXCEPT !.currentSection = lines[i] \o "\n"]
                   : matchCount \in {MatchCount(messageWords, st.currentSection)} } : TRUE
         ELSE [st EXCEPT !.currentSection = lines[i] \o "\n"]
    ELSE IF Len(Trim(lines[i])) > 0
    THEN [st EXCEPT !.currentSection = @ \o lines[i] \o "\n"]
    ELSE st

\* the loop of the section fallback over all lines, in blocks of 8
BestSection(messageWords, lines) ==
    LET blocks == (Len(lines) + 7) \div 8
        blk[k \in 0..blocks] ==
            IF k = 0
            THEN [currentSection |-> "", bestSection |-> "", bestMatchCount |-> 0]
            ELSE CHOOSE after \in
                    { LET lo == (k - 1) * 8 + 1
                          hi == IF k * 8 < Len(lines) THEN k * 8 ELSE Len(lines)
                          iter[j \in (lo - 1)..hi] ==
                              IF j = lo - 1 THEN prev
                              ELSE CHOOSE next \in
                                      {SectionLine(messageWords, lines, st, j) :
                                          st \in {iter[j - 1]}} : TRUE
                      IN iter[hi]
                      : prev \in {blk[k - 1]} } : TRUE
    IN blk[blocks]

\* the loop of the paragraph fallback over
\* dataContent.split(/\n\n+/).filter(p => p.trim().length > 50), counting
\* messageWords.filter(word => word.length > 3 && paraLower.includes(word)):
\* the first paragraph with the greatest count is kept
BestPara(messageWords, dataContent) ==
    CHOOSE kept \in
        { LET best[i \in 0..Len(paragraphs)] ==
                  IF i = 0
                  THEN [bestPara |-> "", bestParaMatches |-> 0]
                  ELSE CHOOSE next \in
                          { IF matchCount > st.bestParaMatches
                            THEN [bestPara |-> paragraphs[i], bestParaMatches |-> matchCount]
                            ELSE st
                            : st \in {best[i - 1]},
                              matchCount \in {MatchCount(words, paragraphs[i])} } : TRUE
          IN best[Len(paragraphs)]
          : paragraphs \in {SelectSeq(Split(dataContent, "paragraphs"),
                                      LAMBDA p : Len(Trim(p)) > 50)},
            words \in {SelectSeq(messageWords, LAMBDA w : Len(w) > 3)} } : TRUE

\* the last resort: dataContent.match(/ORDER HISTORY:[\s\S]*?(?=\n[A-Z]|$)/)
\* is the first "ORDER HISTORY:" and the shortest text after it that is
\* followed by a line feed and a capital letter, or by the end of the text;
\* the result is historyMatch[0].replace('ORDER HISTORY:', '').trim()
\* .split('\n').slice(0, 3).join(' ').trim(), Null without a match
HistoryReply(dataContent) ==
    LET label == "ORDER HISTORY:"
        at == IndexOf(dataContent, label)
        n == Len(dataContent)
        last == MinOf({e \in (at + Len(label) - 1)..n :
                          \/ e = n
                          \/ /\ e + 2 <= n
                             /\ Char(dataContent, e + 1) = "\n"
                             /\ IsUpper(Char(dataContent, e + 2))})
        lines == Split(Trim(SubSeq(dataContent, at + Len(label), last)), "lines")
    IN IF ~Includes(dataContent, "ORDER HISTORY") \/ at = 0 THEN Null
       ELSE Trim(Join(SubSeq(lines, 1, IF Len(lines) < 3 THEN Len(lines) ELSE 3), " "))

-----------------------------------------------------------------------------
(* getAnswerFromData(userMessage, dataContent): the chain of strategies    *)

MaxRecords == 2
MaxFaqs == 2

\* product keys of productWarrantyMap the page may mention
ProductKeys == {"smartphone", "tablet", "galaxy ring", "wireless headphones"}

\* question/answer pairs the FAQ harvest may find in the page
FaqPool ==
    { [question |-> "What is the warranty period?",
       answer |-> "The period depends on the product you bought."],
      [question |-> "warranty period?",
       answer |-> "Most products carry 24 months of cover."],
      [question |-> "How long does the warranty repair service take?",
       answer |-> "A repair usually takes five working days."],
      [question |-> "How can I track my parcel?",
       answer |-> "Use the link in the dispatch e-mail we sent."] }

ProductQueries ==
    {"What is tablet warranty period?", "smartphone warranty", "galaxy ring", "headphone",
     "monitor"}

Queries ==
    ProductQueries
    \cup {"warranty period?", "What is the warranty period?", "is repair free",
          "my parcel? status", "where is my order"}

RecordSeqs == UNION {[1..n -> ProductKeys] : n \in 0..MaxRecords}
FaqSeqs == UNION {[1..n -> FaqPool] : n \in 0..MaxFaqs}

\* contents of the files of backend/data
DataTexts ==
    [ returns |->
          <<"RETURN POLICY:", "Items can be returned within 30 days of purchase.", "",
            "Q: How do I get a refund?",
            "A: Refunds are issued to the original payment method within 5 days.">>,
      shipping |-> <<"SHIPPING OPTIONS:", "Standard shipping takes 5-7 business days.">>,
      payments |-> <<"PAYMENT METHODS:", "We accept cards and PayPal for every order.">>,
      ordersCapitals |->
          <<"ORDER HISTORY:", "Order #1001 - Delivered on 2 May", "Order #1002 - Shipped",
            "Order #1003 - Processing", "Order #1004 - Cancelled">>,
      ordersListed |->
          <<"ORDER HISTORY:", "- #1001 delivered", "- #1002 shipped", "- #1003 processing",
            "- #1004 cancelled", "", "TRACKING:", "Use the link in the dispatch e-mail.">>,
      ordersQA |->
          <<"ORDER HELP:", "",
            "Q: where is my order", "A: It is on its way to you today.", "",
            "Q: my orders",
            "A: Every purchase you made is listed in your account, newest first.">> ]

\* contents of a data/orders.txt handed to getAnswerFromData
OrderTexts ==
    { DataTexts.ordersCapitals,
      DataTexts.ordersListed,
      <<"ORDER HISTORY", "nothing yet">>,
      <<"FAQ:", "See my orders.", "", "HELP:", "Write to us.">>,
      <<"Every purchase you made is listed in your account, newest first.">>,
      <<"">> }

OrderQueries == {"my orders", "where is my order", "order ids"}

\* a call getAnswerFromData(query, text): text is what the fetcher built from
\* a page, a data/warranty.txt or a data/orders.txt; the queries include every
\* keyword of productKeywords on its own
ExtractInit ==
    /\ \/ /\ kbSource \in {"live", "file"}
          /\ query \in ProductQueries
          /\ kbRecords \in RecordSeqs
          /\ kbFaqs = <<>>
       \/ /\ kbSource = "live"
          /\ query \in Queries
          /\ kbRecords = <<"smartphone">>
          /\ kbFaqs \in FaqSeqs
       \/ /\ kbSource = "file"
          /\ query \in UNION {{productKeywords[i].keywords[j] :
                                   j \in 1..Len(productKeywords[i].keywords)} :
                               i \in 1..Len(productKeywords)}
          /\ kbRecords = <<>>
          /\ kbFaqs = <<>>
       \/ /\ kbSource = "orders"
          /\ query \in OrderQueries
          /\ kbRecords = <<>>
          /\ kbFaqs = <<>>
    /\ IF kbSource = "live" THEN doc = FetcherText(kbRecords, kbFaqs)
       ELSE IF kbSource = "file" THEN doc = FileText(kbRecords)
       ELSE doc \in OrderTexts
    /\ stage = "input"
    /\ matchedProduct = Null
    /\ scanned = NothingFound
    /\ qaPairs = <<>>
    /\ bestSection = ""
    /\ bestMatchCount = 0
    /\ answer = Null

\* if (!dataContent) return null
EmptyContent ==
    /\ stage = "input"
    /\ Join(doc, "\n") = ""
    /\ stage' = "null"
    /\ UNCHANGED <<query, kbRecords, kbFaqs, kbSource, doc, matchedProduct, scanned, qaPairs,
                   bestSection, bestMatchCount, answer>>
    /\ UNCHANGED <<cacheVars, chatVars, composeVars>>

\* the loop that finds matchedProduct; without one the product block is skipped
FindProduct ==
    /\ stage = "input"
    /\ Join(doc, "\n") # ""
    /\ \E mp \in {MatchedProduct(ToLower(query))} :
          /\ matchedProduct' = mp
          /\ stage' = IF mp # Null THEN "matched" ELSE "parsing"
    /\ UNCHANGED <<query, kbRecords, kbFaqs, kbSource, doc, scanned, qaPairs, answer, bestSection, bestMatchCount>>
    /\ UNCHANGED <<cacheVars, chatVars, composeVars>>

\* the loop over the lines for the section of matchedProduct
ScanSections ==
    /\ stage = "matched"
    /\ scanned' = SectionScan(matchedProduct, doc)
    /\ stage' = "scanned"
    /\ UNCHANGED <<query, kbRecords, kbFaqs, kbSource, doc, matchedProduct, qaPairs, answer, bestSection, bestMatchCount>>
    /\ UNCHANGED <<cacheVars, chatVars, composeVars>>

\* the end of the product block: returns the reply if a period was found,
\* else falls through to the Q&A block
ProductMatch ==
    /\ stage = "scanned"
    /\ IF scanned.warrantyPeriod # Null
       THEN /\ answer' = ComposeWarranty(scanned.warrantyPeriod, scanned.warrantyService,
                                         scanned.repairServices)
            /\ stage' = "product"
       ELSE /\ answer' = Null
            /\ stage' = "parsing"
    /\ UNCHANGED <<query, kbRecords, kbFaqs, kbSource, doc, matchedProduct, scanned, qaPairs, bestSection, bestMatchCount>>
    /\ UNCHANGED <<cacheVars, chatVars, composeVars>>

\* the loop that collects qaPairs
ParseQA ==
    /\ stage = "parsing"
    /\ qaPairs' = ParseQAPairs(doc)
    /\ stage' = "scoring"
    /\ UNCHANGED <<query, kbRecords, kbFaqs, kbSource, doc, matchedProduct, scanned, answer, bestSection, bestMatchCount>>
    /\ UNCHANGED <<cacheVars, chatVars, composeVars>>

\* the scoring loop and the test of the best match: returns the answer of the
\* best pair, or falls through to the section fallback
QAScore ==
    /\ stage = "scoring"
    /\ \E best \in {BestPair(ToLower(query), qaPairs)} :
          IF best.bestMatch # 0 /\ GoodMatch(best.bestScore)
          THEN /\ answer' = qaPairs[best.bestMatch].answer
               /\ stage' = "qa"
          ELSE /\ answer' = Null
               /\ stage' = "section"
    /\ UNCHANGED <<query, kbRecords, kbFaqs, kbSource, doc, matchedProduct, scanned, qaPairs, bestSection, bestMatchCount>>
    /\ UNCHANGED <<cacheVars, chatVars, composeVars>>

\* the section fallback: returns sentences of the best section, or falls
\* through to the paragraph fallback
SectionFallback ==
    /\ stage = "section"
    /\ \E r \in {BestSection(LongWords(ToLower(query)), doc)} :
          /\ bestSection' = r.bestSection
          /\ bestMatchCount' = r.bestMatchCount
          /\ IF r.bestSection # "" /\ r.bestMatchCount > 0
             THEN /\ answer' = FirstSentences(r.bestSection, 20, 3)
                  /\ stage' = "sectionReply"
             ELSE /\ answer' = Null
                  /\ stage' = "paragraphs"
    /\ UNCHANGED <<query, kbRecords, kbFaqs, kbSource, doc, matchedProduct, scanned, qaPairs>>
    /\ UNCHANGED <<cacheVars, chatVars, composeVars>>

\* the paragraph fallback: returns sentences of the best paragraph, or falls
\* through to the last resort
ParagraphFallback ==
    /\ stage = "paragraphs"
    /\ \E r \in {BestPara(LongWords(ToLower(query)), Join(doc, "\n"))} :
          IF r.bestPara # "" /\ r.bestParaMatches > 0
          THEN /\ answer' = FirstSentences(r.bestPara, 15, 2)
               /\ stage' = "paragraphReply"
          ELSE /\ answer' = Null
               /\ stage' = "lastResort"
    /\ UNCHANGED <<query, kbRecords, kbFaqs, kbSource, doc, matchedProduct, scanned, qaPairs,
                   bestSection, bestMatchCount>>
    /\ UNCHANGED <<cacheVars, chatVars, composeVars>>

\* the last resort and the final return null
LastResort ==
    /\ stage = "lastResort"
    /\ \E history \in {HistoryReply(Join(doc, "\n"))} :
          /\ answer' = history
          /\ stage' = IF history # Null THEN "history" ELSE "null"
    /\ UNCHANGED <<query, kbRecords, kbFaqs, kbSource, doc, matchedProduct, scanned, qaPairs,
                   bestSection, bestMatchCount>>
    /\ UNCHANGED <<cacheVars, chatVars, composeVars>>

ExtractNext ==
    \/ EmptyContent
    \/ FindProduct
    \/ ScanSections
    \/ ProductMatch
    \/ ParseQA
    \/ QAScore
    \/ SectionFallback
    \/ ParagraphFallback
    \/ LastResort

InitExtract == CacheIdle /\ ChatIdle /\ ExtractInit /\ ComposeIdle

SpecExtract == InitExtract /\ [][ExtractNext]_vars

\* the products of productKeywords with an alias in the message
AliasedProducts(message) ==
    {productKeywords[i].product :
        i \in {j \in 1..Len(productKeywords) :
                  HasKeyword(message, productKeywords[j].keywords)}}

\* C7: whenever the query holds an alias of a product, the text holds the
\* section written for that product and the Product Matcher replies, the
\* reply states the warranty period of that product's own section.
C7_OwnSectionPeriod ==
    stage = "product" =>
        \A i \in 1..Len(kbRecords) :
            LET own == IF kbRecords[i] = "galaxy ring" THEN "ring"
                       ELSE IF kbRecords[i] = "wireless headphones" THEN "buds"
                       ELSE kbRecords[i]
            IN own \in AliasedProducts(ToLower(query)) =>
                   Includes(answer,
                            "Warranty period: " \o productWarrantyMap[kbRecords[i]].period)

\* C8: a reply of the Product Matcher is exactly "Warranty period: N Months.
\* <service>. Repair services available: <list>." for the period, the service
\* sentence and the repair services of a section of the text, all three present.
C8_ReplyHasAllThreeParts ==
    stage = "product" =>
        \E k \in DOMAIN productWarrantyMap :
            answer = "Warranty period: " \o productWarrantyMap[k].period
                     \o ". " \o ServiceSentence
                     \o ". Repair services available: "
                     \o Join(productWarrantyMap[k].services, ", ") \o "."

\* C9: when the Q&A Scorer runs on a query equal to a question stored in the
\* text, that pair scores at least 100 and the scorer returns the answer stored
\* with that question.
C9_StoredQuestionGetsItsAnswer ==
    stage \in {"qa", "section"} =>
        \A k \in 1..Len(kbFaqs) :
            kbFaqs[k].question = query =>
                LET stored == [question |-> ToLower(kbFaqs[k].question),
                               answer |-> kbFaqs[k].answer]
                    score == Score(ToLower(query), stored)
                IN /\ score.num >= 100 * score.den
                   /\ stage = "qa"
                   /\ answer = kbFaqs[k].answer

\* C10: the Q&A Scorer returns an answer exactly when the greatest score of
\* the parsed pairs exceeds 15; the answer is that of the earliest pair with
\* the greatest score; otherwise nothing is returned and the chain goes on to
\* the section fallback.
C10_GreatestScoreDecides ==
    stage \in {"qa", "section"} =>
        LET pairs == ParseQAPairs(doc)
            score(i) == Score(ToLower(query), pairs[i])
            tops == {i \in 1..Len(pairs) :
                        \A j \in 1..Len(pairs) : ~Greater(score(j), score(i))}
        IN IF \E i \in 1..Len(pairs) : score(i).num > 15 * score(i).den
           THEN stage = "qa" /\ answer = pairs[MinOf(tops)].answer
           ELSE stage = "section" /\ answer = Null

\* the scorer has answered and two pairs with different answers share the
\* greatest score
C10_Witness ==
    /\ stage = "qa"
    /\ LET pairs == ParseQAPairs(doc)
           score(i) == Score(ToLower(query), pairs[i])
           tops == {i \in 1..Len(pairs) :
                       \A j \in 1..Len(pairs) : ~Greater(score(j), score(i))}
       IN \E i, j \in tops : pairs[i].answer # pairs[j].answer

-----------------------------------------------------------------------------
(* Claims on the chain of strategies and on the section fallback           *)

\* getAnswerFromData has returned
Returned == stage \in {"product", "qa", "sectionReply", "paragraphReply", "history", "null"}

\* C11: once getAnswerFromData has returned, its result is that of the first
\* of the five strategies, in the order Product Matcher, Q&A Scorer, Section
\* Fallback, Paragraph Fallback, Last resort, that yields a non-empty text,
\* and it is null exactly when none of the five yields one.
C11_FirstNonEmptyStrategyWins ==
    Returned =>
        \E results \in
              { LET message == ToLower(query)
                    dataContent == Join(doc, "\n")
                    mp == MatchedProduct(message)
                    found == SectionScan(mp, doc)
                    pairs == ParseQAPairs(doc)
                    bestQA == BestPair(message, pairs)
                    section == BestSection(LongWords(message), doc)
                    para == BestPara(LongWords(message), dataContent)
                IN << IF mp # Null /\ found.warrantyPeriod # Null
                      THEN ComposeWarranty(found.warrantyPeriod, found.warrantyService,
                                           found.repairServices)
                      ELSE Null,
                      IF bestQA.bestMatch # 0 /\ GoodMatch(bestQA.bestScore)
                      THEN pairs[bestQA.bestMatch].answer ELSE Null,
                      IF section.bestSection # "" /\ section.bestMatchCount > 0
                      THEN FirstSentences(section.bestSection, 20, 3) ELSE Null,
                      IF para.bestPara # "" /\ para.bestParaMatches > 0
                      THEN FirstSentences(para.bestPara, 15, 2) ELSE Null,
                      HistoryReply(dataContent) >> } :
            LET produced == {k \in 1..5 : results[k] # Null /\ results[k] # ""}
            IN IF produced = {} THEN answer = Null
               ELSE answer = results[MinOf(produced)]

\* C12: the section fallback counts, for every section of the text in
\* document order, the last one included, the query words longer than 3
\* letters the section holds; it keeps the first section whose count is
\* strictly greater than the best so far, changes nothing once the best count
\* has reached 3, and replies if and only if the best count is at least 1.
\* The sections are the lines before the first header (if any holds text),
\* then each header with the lines up to the next header, blank lines left
\* out.
C12_EverySectionIsCounted ==
    stage \in {"sectionReply", "paragraphs"} =>
        \E messageWords \in {LongWords(ToLower(query))},
           sections \in
              { LET heads == {i \in 1..Len(doc) : IsSectionStart(doc[i])}
                    n == Cardinality(heads)
                    from(k) == IF k = 0 THEN 1 ELSE NthOf(heads, k)
                    to(k) == IF k = n THEN Len(doc) ELSE NthOf(heads, k + 1) - 1
                    text(k) == Join([j \in 1..(to(k) - from(k) + 1) |->
                                        IF Len(Trim(doc[from(k) + j - 1])) > 0
                                        THEN doc[from(k) + j - 1] \o "\n" ELSE ""], "")
                IN SelectSeq([k \in 1..(n + 1) |-> text(k - 1)], LAMBDA s : s # "") } :
            LET best[k \in 0..Len(sections)] ==
                    IF k = 0
                    THEN [bestSection |-> "", bestMatchCount |-> 0]
                    ELSE CHOOSE next \in
                            { IF st.bestMatchCount < 3 /\ matchCount > st.bestMatchCount
                              THEN [bestSection |-> sections[k],
                                    bestMatchCount |-> matchCount]
                              ELSE st
                              : st \in {best[k - 1]},
                                matchCount \in {MatchCount(messageWords, sections[k])} } : TRUE
            IN \E kept \in {best[Len(sections)]} :
                  /\ bestSection = kept.bestSection
                  /\ bestMatchCount = kept.bestMatchCount
                  /\ (stage = "sectionReply") <=> (kept.bestMatchCount >= 1)

-----------------------------------------------------------------------------
(* Topic Classifier and Response Composer: getDataFromFile,                *)
(* getImprovedMockResponse and the paths of POST /api/chat that reach them *)

\* a regular expression a.*b: a, and b somewhere after it
MatchesThen(s, a, b) ==
    \E i \in 1..(Len(s) - Len(a) + 1) :
        /\ SubSeq(s, i, i + Len(a) - 1) = a
        /\ Includes(SubSeq(s, i + Len(a), Len(s)), b)

\* the regular expressions and the includes() tests of
\* getImprovedMockResponse, by the name of what they recognise
Matches(kind, message) ==
    IF kind = "greeting"
    THEN \* /^(hi|hello|hey|greetings|good morning|good afternoon|good evening)/
         \E g \in {"hi", "hello", "hey", "greetings", "good morning", "good afternoon",
                   "good evening"} : StartsWith(message, g)
    ELSE IF kind = "howAreYou"
    THEN \* /(how are you|how r u|how's it going|how do you do)/
         MatchesAny(message, {"how are you", "how r u", "how's it going", "how do you do"})
    ELSE IF kind = "returns"
    THEN \* /(return|refund|exchange|cancel.*order)/
         \/ MatchesAny(message, {"return", "refund", "exchange"})
         \/ MatchesThen(message, "cancel", "order")
    ELSE IF kind = "shipping"
    THEN \* /(ship|shipping|delivery|deliver|track|tracking|when.*arrive|how long.*ship)/
         \/ MatchesAny(message, {"ship", "shipping", "delivery", "deliver", "track",
                                 "tracking"})
         \/ MatchesThen(message, "when", "arrive")
         \/ MatchesThen(message, "how long", "ship")
    ELSE IF kind = "payments"
    THEN \* /(pay|payment|billing|card|credit|debit|paypal|how.*pay|payment method)/
         \/ MatchesAny(message, {"pay", "payment", "billing", "card", "credit", "debit",
                                 "paypal", "payment method"})
         \/ MatchesThen(message, "how", "pay")
    ELSE IF kind = "orders"
    THEN \* /(order|orders|latest.*order|recent.*order|my order|order history|
         \*   order status|track.*order|place.*order|view.*order|order id|order ids|
         \*   all order)/
         \/ MatchesAny(message, {"order", "orders", "my order", "order history",
                                 "order status", "order id", "order ids", "all order"})
         \/ \E a \in {"latest", "recent", "track", "place", "view"} :
               MatchesThen(message, a, "order")
    ELSE IF kind = "orderIds"
    THEN \* /(order id|order ids|all order|get.*order id)/
         \/ MatchesAny(message, {"order id", "order ids", "all order"})
         \/ MatchesThen(message, "get", "order id")
    ELSE IF kind = "latestOrder"
    THEN \* /(latest|recent|last|newest).*order/
         \E a \in {"latest", "recent", "last", "newest"} : MatchesThen(message, a, "order")
    ELSE IF kind = "tracking"
    THEN \* /(track|tracking|where.*order|order status)/
         \/ MatchesAny(message, {"track", "tracking", "order status"})
         \/ MatchesThen(message, "where", "order")
    ELSE IF kind = "cancel"
    THEN \* /(cancel|cancellation)/
         MatchesAny(message, {"cancel", "cancellation"})
    ELSE IF kind = "help"
    THEN \* message.includes('help')
         Includes(message, "help")
    ELSE IF kind = "thanks"
    THEN \* /(thank|thanks|appreciate)/
         MatchesAny(message, {"thank", "thanks", "appreciate"})
    ELSE IF kind = "goodbye"
    THEN \* /(bye|goodbye|see you|farewell|exit|quit)/
         MatchesAny(message, {"bye", "goodbye", "see you", "farewell", "exit", "quit"})
    ELSE \* /(warranty|warranties|repair|service|guarantee|coverage|register.*product|
         \*   extended.*warranty|international.*warranty|samsung.*warranty|tablet|
         \*   smartphone|phone|watch|buds|headphone|charger|battery)/
         \/ MatchesAny(message, {"warranty", "warranties", "repair", "service", "guarantee",
                                 "coverage", "tablet", "smartphone", "phone", "watch", "buds",
                                 "headphone", "charger", "battery"})
         \/ MatchesThen(message, "register", "product")
         \/ \E a \in {"extended", "international", "samsung"} :
               MatchesThen(message, a, "warranty")

\* the fixed replies of getImprovedMockResponse; generated stands for the text
\* of the generative responder, whatever it is, and failure is the error of
\* the 500 response of the handler
Replies ==
    [ greeting |->
          "Hello! I'm here to help you with returns, shipping, payments, and orders. How can I assist you today?",
      howAreYou |->
          "I'm doing great, thank you for asking! I'm here and ready to help you with any questions about returns, shipping, payments, or orders. What can I do for you today?",
      returns |->
          "I can help you with returns and refunds. Items can be returned within 30 days of purchase in original condition. Would you like more details about our return policy?",
      shipping |->
          "Standard shipping takes 5-7 business days. Express is 2-3 days, and overnight is next business day. Free shipping available on orders over $75. Would you like more shipping information?",
      payments |->
          "We accept all major credit cards, debit cards, PayPal, Apple Pay, and Google Pay. All payments are processed securely. Would you like more payment information?",
      orderIds |->
          "You can view all your order IDs by logging into your account at www.oursite.com/my-orders. Your order history page shows all past orders with their order numbers. You can also find order IDs in your order confirmation emails.",
      latestOrder |->
          "To view your latest order, log into your account at www.oursite.com/my-orders. You can see all your past orders there, with the most recent orders at the top. You can also check your email for order confirmation messages.",
      tracking |->
          "You can track your order using your order number and email at www.oursite.com/my-orders. You'll also receive email updates at each stage of your order. Login to see real-time tracking information.",
      cancel |->
          "You can cancel your order within 1 hour of placing it. After that, contact us immediately and we'll try to help if the order hasn't shipped yet.",
      orders |->
          "I can help you with your orders. You can view your order history, track orders, and manage your account at www.oursite.com/my-orders. What specific information do you need about your order?",
      help |->
          "I'd be happy to help! I can assist you with returns, shipping, payments, and orders. What would you like to know about?",
      thanks |->
          "You're very welcome! Is there anything else I can help you with today?",
      goodbye |->
          "Thank you for contacting us! Have a wonderful day! If you need anything else, feel free to reach out anytime.",
      warranty |->
          "I can help you with Samsung warranty information. All Samsung products come with a standard manufacturer's warranty. You can register your product online through My Page for faster support. Would you like to know more about warranty periods for specific products or how to book a repair?",
      default |->
          "I'm a Samsung warranty specialist. I can help you with information about Samsung product warranties, repairs, product registration, and support services. What would you like to know?",
      generated |-> "<generated>",
      failure |-> "Failed to get response from AI" ]

\* the file name getDataFromFile chooses for a topic (Null: return null)
FileNameOf(t) ==
    IF t \in {"returns", "return", "refund"} THEN "returns.txt"
    ELSE IF t \in {"shipping", "ship", "delivery"} THEN "shipping.txt"
    ELSE IF t \in {"payment", "pay", "billing"} THEN "payments.txt"
    ELSE IF t \in {"order", "orders", "tracking"} THEN "orders.txt"
    ELSE IF t \in {"warranty", "warranties"} THEN "warranty.txt"
    ELSE Null

\* getDataFromFile(t): the lines of the file, NoText for null
GetDataFromFile(t) ==
    IF FileNameOf(t) = Null THEN NoText ELSE files[FileNameOf(t)]

\* JavaScript truthiness of a text held as lines
TruthyData(lines) == lines # NoText /\ lines # <<"">>

\* the branches of getImprovedMockResponse that read a file, in source order;
\* help, thanks and goodbye are tested between orders and warranty
Branches == <<"returns", "shipping", "payments", "orders", "warranty">>

AfterBranchStops(t) == "done"

\* the test that follows the test of a branch
AfterBranch(t) ==
    IF t = "returns" THEN "shipping"
    ELSE IF t = "shipping" THEN "payments"
    ELSE IF t = "payments" THEN "orders"
    ELSE IF t = "orders" THEN "late"
    ELSE "default"

\* answer && answer.length > n
AcceptsLongerOrEqual(text, n) == TruthyText(text) /\ Len(text) >= n
AcceptsLonger(text, n) == TruthyText(text) /\ Len(text) > n

\* what a branch returns once getAnswerFromData has returned
BranchReply(t, message, text) ==
    IF t \in {"returns", "shipping", "payments"}
    THEN (IF TruthyText(text) THEN text ELSE Replies[t])
    ELSE IF t = "orders"
    THEN (IF AcceptsLonger(text, 30) THEN text
          ELSE IF Matches("orderIds", message) THEN Replies.orderIds
          ELSE IF Matches("latestOrder", message) THEN Replies.latestOrder
          ELSE IF Matches("tracking", message) THEN Replies.tracking
          ELSE IF Matches("cancel", message) THEN Replies.cancel
          ELSE Replies.orders)
    ELSE (IF AcceptsLonger(text, 10) THEN text ELSE Replies.warranty)

\* what getWarrantyKnowledgeBase() resolves to: the text of the cache (the
\* text the fetcher builds from the live page when the fetch succeeds), else
\* data/warranty.txt, else null
KnowledgeBase ==
    IF liveOk THEN FetcherText(<<"smartphone">>, <<>>) ELSE files["warranty.txt"]

\* what backend/data can hold
FileSets ==
    { [f \in FileNames |->
          IF f = "returns.txt" THEN r
          ELSE IF f = "shipping.txt" THEN sh
          ELSE IF f = "payments.txt" THEN pm
          ELSE IF f = "orders.txt" THEN o
          ELSE w] :
        r \in {NoText, DataTexts.returns},
        sh \in {NoText, DataTexts.shipping},
        pm \in {NoText, DataTexts.payments},
        o \in {NoText, DataTexts.ordersCapitals, DataTexts.ordersListed, DataTexts.ordersQA},
        w \in {NoText, FileText(<<"tablet">>)} }

ComposeMessages ==
    {"Hi there", "how are you", "thanks for the refund", "help me with my order", "bye",
     "i want a refund", "when will it ship", "how can i pay for my order",
     "where is my order", "my orders", "order ids", "my latest order status",
     "cancel my order", "What is tablet warranty period?", "smartphone warranty",
     "what time is it"}

\* getAnswerFromData(userMessage, lines) is entered for branch t
EnterExtraction(t, lines) ==
    /\ topic' = t
    /\ composePc' = "extract"
    /\ query' = userMessage
    /\ doc' = lines
    /\ stage' = "input"
    /\ matchedProduct' = Null
    /\ scanned' = NothingFound
    /\ qaPairs' = <<>>
    /\ bestSection' = ""
    /\ bestMatchCount' = 0
    /\ answer' = Null
    /\ UNCHANGED <<kbRecords, kbFaqs, kbSource>>

\* POST /api/chat with a message, up to the first await
ComposeReceive ==
    /\ composePc = "idle"
    /\ userMessage' \in ComposeMessages
    /\ composePc' = IF openaiMode THEN "kbLoad" ELSE "hf"
    /\ UNCHANGED <<diag, files, liveOk, openaiMode, warrantyKB, kbGets, fileReads, topic, reply>>
    /\ UNCHANGED <<cacheVars, chatVars, extractVars>>

\* const warrantyKB = await getWarrantyKnowledgeBase() before the OpenAI call
ComposeLoadKB ==
    /\ composePc = "kbLoad"
    /\ warrantyKB' = KnowledgeBase
    /\ kbGets' = kbGets + 1
    /\ composePc' = "openai"
    /\ UNCHANGED <<diag, files, liveOk, openaiMode, userMessage, fileReads, topic, reply>>
    /\ UNCHANGED <<cacheVars, chatVars, extractVars>>

\* the OpenAI call settled; on an error a warranty-like message goes to the
\* knowledge base, any other message to getImprovedMockResponse
ComposeOpenAIDone ==
    /\ composePc = "openai"
    /\ \E ok \in BOOLEAN :
          IF ok
          THEN composePc' = "done" /\ reply' = Replies.generated
          ELSE /\ reply' = Null
               /\ composePc' = IF WarrantyLike(userMessage) THEN "kbFallback" ELSE "mock"
    /\ UNCHANGED <<diag, files, liveOk, openaiMode, userMessage, warrantyKB, kbGets, fileReads, topic>>
    /\ UNCHANGED <<cacheVars, chatVars, extractVars>>

\* catch (openaiError): await getWarrantyKnowledgeBase(), then
\* getAnswerFromData(message, warrantyKB) if there is a knowledge base
ComposeFallbackKB ==
    /\ composePc = "kbFallback"
    /\ warrantyKB' = KnowledgeBase
    /\ kbGets' = kbGets + 1
    /\ IF TruthyData(KnowledgeBase)
       THEN EnterExtraction("kb", KnowledgeBase)
       ELSE composePc' = "mock" /\ UNCHANGED <<topic, extractVars>>
    /\ UNCHANGED <<diag, files, liveOk, openaiMode, userMessage, fileReads, reply>>
    /\ UNCHANGED <<cacheVars, chatVars>>

\* the extraction of the knowledge base returned: its answer is the reply, or
\* getImprovedMockResponse is called
ComposeKBAnswer ==
    /\ composePc = "extract"
    /\ topic = "kb"
    /\ Returned
    /\ IF TruthyText(answer)
       THEN composePc' = "done" /\ reply' = answer
       ELSE composePc' = "mock" /\ reply' = Null
    /\ UNCHANGED <<diag, files, liveOk, openaiMode, userMessage, warrantyKB, kbGets, fileReads, topic>>
    /\ UNCHANGED <<cacheVars, chatVars, extractVars>>

\* getHuggingFaceResponse: the fetch settled; a generated text is the reply,
\* the retry calls the function again, anything else ends in
\* getImprovedMockResponse
ComposeHFDone ==
    /\ composePc = "hf"
    /\ \E outcome \in HFOutcomes :
          \E next \in {HFAfter(outcome)} :
             /\ composePc' = IF next = "generated" THEN "done"
                             ELSE IF next = "retry" THEN "hf" ELSE "mock"
             /\ reply' = IF next = "generated" THEN Replies.generated ELSE Null
    /\ UNCHANGED <<diag, files, liveOk, openaiMode, userMessage, warrantyKB, kbGets, fileReads, topic>>
    /\ UNCHANGED <<cacheVars, chatVars, extractVars>>

\* getImprovedMockResponse, the tests of greeting and "how are you"
MockGreetings ==
    /\ composePc = "mock"
    /\ \E message \in {Trim(ToLower(userMessage))} :
          IF Matches("greeting", message)
          THEN composePc' = "done" /\ reply' = Replies.greeting
          ELSE IF Matches("howAreYou", message)
          THEN composePc' = "done" /\ reply' = Replies.howAreYou
          ELSE composePc' = "returns" /\ reply' = Null
    /\ UNCHANGED <<diag, files, liveOk, openaiMode, userMessage, warrantyKB, kbGets, fileReads, topic>>
    /\ UNCHANGED <<cacheVars, chatVars, extractVars>>

\* getImprovedMockResponse, the test of one keyword family: on a match
\* getDataFromFile is called with the name of the branch and, if it returns a
\* text, getAnswerFromData; in every other case the next test follows
MockBranch(t) ==
    /\ composePc = t
    /\ \E message \in {Trim(ToLower(userMessage))}, data \in {GetDataFromFile(t)} :
          /\ fileReads' = IF Matches(t, message) /\ data # NoText
                          THEN Append(fileReads, FileNameOf(t)) ELSE fileReads
          /\ IF Matches(t, message) /\ TruthyData(data)
             THEN EnterExtraction(t, data)
             ELSE composePc' = AfterBranch(t) /\ UNCHANGED <<topic, extractVars>>
    /\ UNCHANGED <<diag, files, liveOk, openaiMode, userMessage, warrantyKB, kbGets, reply>>
    /\ UNCHANGED <<cacheVars, chatVars>>

\* the return statements of a branch after getAnswerFromData
MockBranchReply ==
    /\ composePc = "extract"
    /\ topic # "kb"
    /\ Returned
    /\ reply' = BranchReply(topic, Trim(ToLower(userMessage)), answer)
    /\ composePc' = "done"
    /\ UNCHANGED <<diag, files, liveOk, openaiMode, userMessage, warrantyKB, kbGets, fileReads, topic>>
    /\ UNCHANGED <<cacheVars, chatVars, extractVars>>

\* getImprovedMockResponse, the tests of help, thanks and goodbye
MockCourtesies ==
    /\ composePc = "late"
    /\ \E message \in {Trim(ToLower(userMessage))} :
          IF Matches("help", message)
          THEN composePc' = "done" /\ reply' = Replies.help
          ELSE IF Matches("thanks", message)
          THEN composePc' = "done" /\ reply' = Replies.thanks
          ELSE IF Matches("goodbye", message)
          THEN composePc' = "done" /\ reply' = Replies.goodbye
          ELSE composePc' = "warranty" /\ reply' = Null
    /\ UNCHANGED <<diag, files, liveOk, openaiMode, userMessage, warrantyKB, kbGets, fileReads, topic>>
    /\ UNCHANGED <<cacheVars, chatVars, extractVars>>

\* getImprovedMockResponse, the default reply
MockDefault ==
    /\ composePc = "default"
    /\ composePc' = "done"
    /\ reply' = Replies.default
    /\ UNCHANGED <<diag, files, liveOk, openaiMode, userMessage, warrantyKB, kbGets, fileReads, topic>>
    /\ UNCHANGED <<cacheVars, chatVars, extractVars>>

\* GET /api/warranty-data: source is 'live' when getWarrantyKnowledgeBase()
\* gave a truthy text and 'file' otherwise; data is
\* warrantyData.substring(0, 500) + '...' or 'No data available'
WarrantyData ==
    /\ composePc = "idle"
    /\ composePc' = "diag"
    /\ \E warrantyData \in {KnowledgeBase} :
          diag' = IF TruthyData(warrantyData)
                  THEN [source |-> "live",
                        data |-> CHOOSE d \in {SubSeq(text, 1, IF Len(text) < 500 THEN Len(text)
                                                               ELSE 500) \o "..." :
                                                   text \in {Join(warrantyData, "\n")}} : TRUE]
                  ELSE [source |-> "file", data |-> "No data available"]
    /\ UNCHANGED <<files, liveOk, openaiMode, userMessage, warrantyKB, kbGets, fileReads, topic,
                   reply>>
    /\ UNCHANGED <<cacheVars, chatVars, extractVars>>

\* res.json({ response: aiResponse }) throws: the main path of the handler
\* ends in its catch block and the reply is not sent
SendThrows ==
    /\ composePc = "done"
    /\ composePc' = "catch"
    /\ reply' = Null
    /\ UNCHANGED <<diag, files, liveOk, openaiMode, userMessage, warrantyKB, kbGets, fileReads, topic>>
    /\ UNCHANGED <<cacheVars, chatVars, extractVars>>

\* catch (error): await getWarrantyKnowledgeBase(), then message.toLowerCase()
\* is evaluated; `message` is declared with const inside the try block and is
\* not in scope here, so a ReferenceError is thrown, caught as fallbackError,
\* and the 500 response is sent
ChatCatch ==
    /\ composePc = "catch"
    /\ warrantyKB' = KnowledgeBase
    /\ kbGets' = kbGets + 1
    /\ reply' = Replies.failure
    /\ composePc' = "failed"
    /\ UNCHANGED <<diag, files, liveOk, openaiMode, userMessage, fileReads, topic>>
    /\ UNCHANGED <<cacheVars, chatVars, extractVars>>

ComposeNext ==
    \/ ComposeReceive
    \/ WarrantyData
    \/ SendThrows
    \/ ChatCatch
    \/ ComposeLoadKB
    \/ ComposeOpenAIDone
    \/ ComposeFallbackKB
    \/ ComposeKBAnswer
    \/ ComposeHFDone
    \/ MockGreetings
    \/ \E t \in {Branches[i] : i \in 1..Len(Branches)} : MockBranch(t)
    \/ MockBranchReply
    \/ MockCourtesies
    \/ MockDefault
    \/ FindProduct
    \/ ScanSections
    \/ ProductMatch
    \/ ParseQA
    \/ QAScore
    \/ SectionFallback
    \/ ParagraphFallback
    \/ LastResort

InitCompose ==
    /\ CacheIdle
    /\ ChatIdle
    /\ ExtractIdle
    /\ files \in FileSets
    /\ liveOk \in BOOLEAN
    /\ openaiMode \in BOOLEAN
    /\ composePc = "idle"
    /\ userMessage = ""
    /\ warrantyKB = NoText
    /\ kbGets = 0
    /\ fileReads = <<>>
    /\ topic = "none"
    /\ reply = Null
    /\ diag = [source |-> "none", data |-> ""]

SpecCompose == InitCompose /\ [][ComposeNext]_vars

-----------------------------------------------------------------------------
(* Claims on the Topic Classifier and the Response Composer                *)

\* C13: when getImprovedMockResponse answers a message that matches a canned
\* intent (greeting, how are you, help, thanks, goodbye), the reply is the
\* fixed reply of a matched intent and no data file has been read, also when
\* the message matches the keyword family of a topic. getImprovedMockResponse
\* has answered when the request is done and the reply is neither the text of
\* the generative responder nor the answer the handler itself extracted from
\* the knowledge base.
C13_CannedIntentFirst ==
    (composePc = "done" /\ reply # Replies.generated /\ ~(topic = "kb" /\ TruthyText(answer))) =>
        \E message \in {Trim(ToLower(userMessage))} :
            LET canned == {k \in {"greeting", "howAreYou", "help", "thanks", "goodbye"} :
                              Matches(k, message)}
            IN canned # {} => (\E k \in canned : reply = Replies[k]) /\ fileReads = <<>>

\* C14: while the message 'bye' is handled neither getWarrantyKnowledgeBase()
\* is called nor a data file read, and unless the generative responder
\* answers, the reply is the fixed goodbye reply.
C14_ByeFetchesNothing ==
    userMessage = "bye" =>
        /\ kbGets = 0
        /\ fileReads = <<>>
        /\ (composePc = "done" /\ reply # Replies.generated) => reply = Replies.goodbye

\* C15: when getImprovedMockResponse answers a message that matches no canned
\* intent, the only data file read is that of the first topic, in the order
\* returns, shipping, payments, orders, warranty, whose keyword family matches
\* the message, and the reply is the answer extracted from that file or a
\* fixed reply of that topic, whenever the file of that topic exists; a
\* message matching no family gets the default reply and no file is read.
C15_FirstMatchingTopicOnly ==
    (composePc = "done" /\ reply # Replies.generated /\ ~(topic = "kb" /\ TruthyText(answer))) =>
        \E message \in {Trim(ToLower(userMessage))} :
            (\A k \in {"greeting", "howAreYou", "help", "thanks", "goodbye"} :
                ~Matches(k, message)) =>
                LET matching == {i \in 1..Len(Branches) : Matches(Branches[i], message)}
                    first == Branches[MinOf(matching)]
                    corpus == first \o ".txt"
                    fixed == IF first = "orders"
                             THEN {"orderIds", "latestOrder", "tracking", "cancel", "orders"}
                             ELSE {first}
                IN IF matching = {}
                   THEN reply = Replies.default /\ fileReads = <<>>
                   ELSE files[corpus] # NoText =>
                           /\ fileReads = <<corpus>>
                           /\ \/ \E k \in fixed : reply = Replies[k]
                              \/ /\ topic = first
                                 /\ doc = files[corpus]
                                 /\ reply = answer

\* C16: when the orders branch replies, the reply is the extracted answer if
\* and only if that answer is longer than 30 characters; otherwise it is the
\* fixed reply of the first request matched among order ids, latest order,
\* tracking and cancellation, in this order, and the general order reply when
\* none is matched.
C16_OrdersAcceptanceRule ==
    (composePc = "done" /\ topic = "orders") =>
        \E message \in {Trim(ToLower(userMessage))} :
            LET requests == <<"orderIds", "latestOrder", "tracking", "cancel">>
                asked == {i \in 1..Len(requests) : Matches(requests[i], message)}
            IN IF answer \notin {Null, ""} /\ Len(answer) > 30
               THEN reply = answer
               ELSE /\ reply = IF asked = {} THEN Replies.orders
                               ELSE Replies[requests[MinOf(asked)]]
                    /\ reply # answer

\* the orders branch has replied with the fixed reply of the tracking request
\* although an answer of exactly 30 characters was extracted
C16_Witness ==
    /\ composePc = "done"
    /\ topic = "orders"
    /\ answer \notin {Null, ""}
    /\ Len(answer) = 30
    /\ reply = Replies.tracking

\* C18: when the composer extracts the answer to a warranty message, the text
\* handed to getAnswerFromData is the text getWarrantyKnowledgeBase() serves,
\* the live-fetched text when the live fetch succeeds.
C18_WarrantyFromCacheText ==
    (composePc \in {"extract", "done"} /\ topic = "warranty") => doc = KnowledgeBase

-----------------------------------------------------------------------------
(* Further claims on the chat request and on the fetcher                   *)

\* C17: every chat request that carries a message eventually ends with a
\* textual reply (generated, extracted or canned), whatever the knowledge base
\* and the generative responder do, never with an error.
C17_EndsWithTextualReply ==
    (chatPc # "idle" /\ chatMsg # "")
        ~> (chatPc = "done" /\ chatReply \in {"generated", "extracted", "canned"})

\* C20: the text fetchWarrantyFromWebsite builds holds the hard-coded catalog
\* if and only if no product warranty record was recognized in the page.
C20_CatalogIffNoRecord ==
    kbSource = "live" =>
        ((\E i \in 1..(Len(doc) - Len(CatalogLines) + 1) :
             SubSeq(doc, i, i + Len(CatalogLines) - 1) = CatalogLines)
         <=> kbRecords = <<>>)

-----------------------------------------------------------------------------
(* Claim on the diagnostics query                                          *)

\* C22: when GET /api/warranty-data has answered and there is a knowledge
\* text, the reported source is 'live' exactly when that text was obtained by
\* the live fetch and 'file' exactly when it was read from data/warranty.txt,
\* and the reported data begin with the first 500 characters of that text.
C22_ProvenanceReported ==
    (composePc = "diag" /\ TruthyData(KnowledgeBase)) =>
        /\ diag.source = (IF liveOk THEN "live" ELSE "file")
        /\ \E text \in {Join(KnowledgeBase, "\n")} :
              StartsWith(diag.data, SubSeq(text, 1, IF Len(text) < 500 THEN Len(text) ELSE 500))

-----------------------------------------------------------------------------
(* Claims on the hard-coded catalog and on the alias table                 *)

\* C26: when getAnswerFromData has returned on the text the fetcher builds
\* from a page without a recognized record (the text with the hard-coded
\* catalog) and on a query that names a product of the catalog, the result is
\* a reply of the Product Matcher that states the warranty period written in
\* the catalog section of that product.
C26_CatalogSectionPeriod ==
    (kbSource = "live" /\ kbRecords = <<>> /\ Returned) =>
        LET named == [ tablet |-> "TABLET:",
                       smartphone |-> "SMARTPHONE (including Certified Re-Newed model):",
                       ring |-> "GALAXY RING:",
                       headphone |-> "GALAXY BUDS AND WIRELESS HEADPHONES:",
                       monitor |-> "MONITOR (FOR CONSUMERS):" ]
            at(header) == CHOOSE i \in 1..Len(CatalogLines) : CatalogLines[i] = header
            \* the line after the header, "- Warranty period: N Months", without "- "
            period(header) == SubSeq(CatalogLines[at(header) + 1], 3,
                                     Len(CatalogLines[at(header) + 1]))
        IN \A name \in DOMAIN named :
              Includes(ToLower(query), name) =>
                  (stage = "product" /\ Includes(answer, period(named[name])))

\* C27: every product of productKeywords can be selected: when the loop that
\* finds matchedProduct has run on a query that is a keyword of a product, it
\* has selected that product, or another keyword of that product, taken as
\* the query, selects it (a query that holds a keyword selects a product only
\* if the keyword alone selects it, since every keyword found in the keyword
\* is found in the query).
C27_EveryKeySelectable ==
    stage \in {"matched", "parsing"} =>
        \A i \in 1..Len(productKeywords) :
            LET product == productKeywords[i].product
                keywords == productKeywords[i].keywords
            IN (\E j \in 1..Len(keywords) : keywords[j] = query) =>
                  \/ matchedProduct = product
                  \/ \E j \in 1..Len(keywords) : MatchedProduct(keywords[j]) = product

\* C28: whenever the section fallback or the paragraph fallback returns a
\* result, the result is not the final period alone: it holds a sentence of
\* the winning section that is longer than 20 characters, or a sentence of the
\* winning paragraph that is longer than 15 characters.
C28_ReplyHoldsASentence ==
    stage \in {"sectionReply", "paragraphReply"} =>
        /\ answer # "."
        /\ \E winner \in
                 { IF stage = "sectionReply" THEN bestSection
                   ELSE BestPara(LongWords(ToLower(query)), Join(doc, "\n")).bestPara } :
              \E sentences \in {Split(winner, "sentences")} :
                 \E k \in 1..Len(sentences) :
                    /\ Len(Trim(sentences[k])) > (IF stage = "sectionReply" THEN 20 ELSE 15)
                    /\ Includes(answer, Trim(sentences[k]))

-----------------------------------------------------------------------------
(* Claims on missing files and on the error handler                        *)

\* C29: whenever getImprovedMockResponse has answered, for every message and
\* every combination of present and absent files, the reply is a non-empty
\* text; and for every topic whose keyword family matches the message while
\* its file is missing, the reply comes from a later test or is the default
\* reply: it is neither extracted for that topic nor a fixed reply of it.
C29_MissingFileFallsThrough ==
    (composePc = "done" /\ reply # Replies.generated /\ ~(topic = "kb" /\ TruthyText(answer))) =>
        /\ reply \notin {Null, ""}
        /\ \E message \in {Trim(ToLower(userMessage))} :
              \A i \in 1..Len(Branches) :
                 (Matches(Branches[i], message) /\ files[Branches[i] \o ".txt"] = NoText) =>
                    /\ topic # Branches[i]
                    /\ \A k \in (IF Branches[i] = "orders"
                                  THEN {"orderIds", "latestOrder", "tracking", "cancel", "orders"}
                                  ELSE {Branches[i]}) : reply # Replies[k]

\* a refund request has been answered with the default reply while
\* returns.txt is missing
C29_Witness ==
    /\ composePc = "done"
    /\ userMessage = "i want a refund"
    /\ files["returns.txt"] = NoText
    /\ reply = Replies.default

\* C30: when the main path of the handler has thrown and the error handler
\* has answered, the answer is the text getAnswerFromData extracts from the
\* warranty knowledge base whenever the message is warranty-like
\* (warranty, warranties, tablet, smartphone, phone, watch, buds), the
\* knowledge base is available and the extraction yields a text; the 500
\* failure is the answer only otherwise.
C30_CatchAnswersFromKnowledgeBase ==
    composePc = "failed" =>
        \E extracted \in
              { IF ~TruthyData(KnowledgeBase)
                   \/ ~MatchesAny(ToLower(userMessage),
                                  {"warranty", "warranties", "tablet", "smartphone", "phone",
                                   "watch", "buds"})
                THEN Null
                ELSE LET message == ToLower(userMessage)
                         lines == KnowledgeBase
                         dataContent == Join(lines, "\n")
                         mp == MatchedProduct(message)
                         found == SectionScan(mp, lines)
                         pairs == ParseQAPairs(lines)
                         bestQA == BestPair(message, pairs)
                         section == BestSection(LongWords(message), lines)
                         para == BestPara(LongWords(message), dataContent)
                     IN IF mp # Null /\ found.warrantyPeriod # Null
                        THEN ComposeWarranty(found.warrantyPeriod, found.warrantyService,
                                             found.repairServices)
                        ELSE IF bestQA.bestMatch # 0 /\ GoodMatch(bestQA.bestScore)
                        THEN pairs[bestQA.bestMatch].answer
                        ELSE IF section.bestSection # "" /\ section.bestMatchCount > 0
                        THEN FirstSentences(section.bestSection, 20, 3)
                        ELSE IF para.bestPara # "" /\ para.bestParaMatches > 0
                        THEN FirstSentences(para.bestPara, 15, 2)
                        ELSE HistoryReply(dataContent) } :
            reply = (IF TruthyText(extracted) THEN extracted ELSE Replies.failure)

-----------------------------------------------------------------------------
(* Claims on clearing the cache, on racing calls and on failing calls      *)

\* C21: clearWarrantyCache() can always be called and leaves the cache entry
\* empty (no text, no timestamp); in a sequential run (no get() in flight at
\* the clear or at the next call) the first get() after a clear starts a live
\* fetch and returns nothing before that fetch has settled.
C21_ClearForcesFetch ==
    /\ [](ENABLED clearWarrantyCache)
    /\ [][ /\ clearWarrantyCache
               => (warrantyCache'.data = Null /\ warrantyCache'.timestamp = NullTime)
           /\ \A p \in Procs :
                 ( /\ cacheLog.last = "cleared"
                   /\ cacheLog.pending = {}
                   /\ \A q \in Procs : pc[q] # "fetching"
                   /\ pc[p] = "idle" /\ pc'[p] # "idle" )
                 => (pc'[p] = "fetching" /\ result'[p] = Null)
         ]_vars

\* a get() is fetching after a clear that found no call in flight, although
\* another get() had stored a live text less than CACHE_DURATION before
C21_Witness ==
    \E p, q \in Procs :
        /\ pc[p] = "fetching"
        /\ cacheLog.last = "cleared" /\ cacheLog.pending = {}
        /\ pc[q] = "done" /\ via[q] = "live"
        /\ now[p] - now[q] < CACHE_DURATION

\* C23: a get() that starts after clearWarrantyCache() has returned is never
\* served a text whose live fetch was started before that clear, whatever
\* calls were in flight at the clear.
C23_NoTextFromBeforeClear ==
    [][\A p \in Procs :
          (pc[p] = "idle" /\ pc'[p] = "done") => cacheLog.entry # "liveBefore"
      ]_vars

\* C24: under any interleaving of get() calls, a write to the cache never
\* replaces an entry by one with an older timestamp (a cleared entry has no
\* timestamp and is excepted), and a get() is served from the cache only
\* within CACHE_DURATION of the time the stored text was obtained.
C24_TimestampNeverOlder ==
    [][ /\ (warrantyCache.timestamp # NullTime /\ warrantyCache'.timestamp # NullTime)
              => warrantyCache'.timestamp >= warrantyCache.timestamp
        /\ \A p \in Procs :
              (pc[p] = "idle" /\ pc'[p] = "done")
              => clock - cacheLog.obtained < CACHE_DURATION
      ]_vars

\* C25: a get() that fails (its live fetch failed and warranty.txt could not
\* be read) leaves the text and the timestamp of the cache entry as they are
\* and returns no text, a stale one held in the entry included; and the next
\* get() after a failing one that ran alone starts a live fetch again.
C25_FailureLeavesCacheAlone ==
    [][\A p \in Procs :
          /\ (pc[p] = "fetching" /\ pc'[p] = "failed")
             => ( /\ warrantyCache'.data = warrantyCache.data
                  /\ warrantyCache'.timestamp = warrantyCache.timestamp
                  /\ result'[p] = Null )
          /\ (cacheLog.last = "failed" /\ pc[p] = "idle" /\ pc'[p] # "idle")
             => pc'[p] = "fetching"
      ]_vars

\* a get() has failed while the entry held an expired live text, the entry is
\* still the same, and the next get() is fetching
C25_Witness ==
    \E p, q \in Procs :
        /\ pc[p] = "failed" /\ result[p] = Null
        /\ cacheLog.last = "failed"
        /\ warrantyCache.data \in LiveTexts
        /\ now[p] - warrantyCache.timestamp >= CACHE_DURATION
        /\ pc[q] = "fetching" /\ now[q] > now[p]

====
